---- MODULE Spec2Model ----
(***************************************************************************)
(* A model of flo's two packet routers and of its replay generator:        *)
(*   - the node-side game dispatcher                                       *)
(*       (crates/node/src/game/host/dispatch.rs),                          *)
(*   - the client-side LAN proxy supervisor                                *)
(*       (binaries/flo/src/lan/game/proxy.rs), and                         *)
(*   - the initialisation of a replay (crates/replay/src/lib.rs).          *)
(* The three run in different processes and share no state.  The           *)
(* dispatcher has ten specifications, each with the part of its            *)
(* environment that a group of properties is about (SpecD: connections,    *)
(* leaves and ticks; SpecChat: chat; SpecLife: start(), keep-alives and    *)
(* the drop; SpecAct: the players' actions and the ticks; SpecLeave:       *)
(* connections and leaves before the start; SpecLeft: the same with the    *)
(* PlayerLeft broadcasts counted; SpecBurst: a full action channel, the    *)
(* drop and the end of the messages; SpecBurstFair: SpecBurst with the     *)
(* tasks' steps weakly fair; SpecLock: the two tasks broadcasting under    *)
(* the Mutex; SpecMsg: every kind of message to the state task); the proxy *)
(* has one (SpecP), the replay generator one (SpecReplay).                 *)
(***************************************************************************)
EXTENDS Integers, Sequences, FiniteSets, TLC

(***************************************************************************)
(* Bounds of the model.                                                    *)
(***************************************************************************)
\* capacity of a player's outbound frame channel (made by the connection layer)
SinkCap == 2
\* OutgoingKeepAlive packets a player sends in one run
MaxAck == 2
\* OutgoingAction packets the players send in one run
MaxActions == 2
\* TCP connections the local game client makes to the proxy in one run
MaxAccepts == 2
\* pre-game events the node sends the proxy in one run
MaxEvents == 2
\* GameLoadedSelf packets the local game client sends in one run
MaxSelfLoaded == 1
\* broadcast calls the two tasks of the dispatcher make in one run
MaxCalls == 3
\* OutgoingAction packets of a run in which the action channel fills up
MaxBurst == 11
\* PlayerLeft broadcasts about one player between two of its connections
MaxLeft == 2

(***************************************************************************)
(* Program constants.                                                      *)
(***************************************************************************)
\* crate::constants::GAME_DEFAULT_STEP_MS, the tick stream's step
GAME_DEFAULT_STEP_MS == 30
\* channel(10): the state task's channel to the tick task
ActionChannelCap == 10
\* channel(10): LanProxy's channel of pre-game events
EventChannelCap == 10

StartMessage == "One or more players in this game have been muted."

(***************************************************************************)
(* The game the dispatcher is built for: three players in slots 0, 1 and 3 *)
(* (the player ids are the database ids, not the slot numbers), one of     *)
(* them possibly chat-banned.  A fourth id is used by no slot.             *)
(***************************************************************************)
SlotList(banned) ==
  << [id |-> 0, player_id |-> 11, ban_list |-> IF 11 \in banned THEN {"Chat"} ELSE {}],
     [id |-> 1, player_id |-> 12, ban_list |-> IF 12 \in banned THEN {"Chat"} ELSE {}],
     [id |-> 3, player_id |-> 13, ban_list |-> IF 13 \in banned THEN {"Chat"} ELSE {}] >>

SlotLists == { SlotList({}), SlotList({12}) }

UnknownPlayerId == 99
UnknownSlotPlayerId == 9

LeaveReasons == {"LeaveDisconnect", "LeaveLost"}
\* ChatToHost.to_players lists the environment sends (slot player ids)
ChatTargets == { << 1, 2, 4 >>, << 2, UnknownSlotPlayerId >> }
SlotClientStatuses ==
  {"Pending", "Connected", "Joined", "Loading", "Loaded", "Disconnected", "Left"}
\* statuses a client reports in PacketClientUpdateSlotClientStatusRequest
ReportedStatuses == {"Loaded"}

VARIABLES
  \* ---- dispatcher (node side) ----
  slots,                  \* the slot list Dispatcher::new was given
  start_tx,               \* Dispatcher.start_tx is Some
  start_rx,               \* the oneshot: "pending", "sent" or "closed"
  d_dropped,              \* the Dispatcher (and its SpawnScope) was dropped
  sent_tick,              \* State.sent_tick
  player_ack_map,         \* State.player_ack_map
  game_player_id_lookup,  \* State.game_player_id_lookup
  chat_banned_player_ids, \* State.chat_banned_player_ids
  map,                    \* Shared.map: player id -> PlayerDispatchInfo
  chan,                   \* the channel behind each player's Sender<Frame>
  action_ch,              \* frames in the channel(10) from state task to tick task
  tick_stream,            \* actions the ActionTickStream has accumulated
  tick_pc,                \* tick task: "wait_start", "loop", "exited"
  state_pc,               \* state task: "recv", "send_wait", "exited"
  pending_action,         \* the action a blocked action_tx.send is holding
  rx_open,                \* the inbound Message channel still has a sender
  out_open,               \* the GameEventSender still has a receiver
  d_last,                 \* what the last step gave: its result, events and frames
  n_actions,              \* OutgoingAction packets received so far
  \* ---- LAN proxy (client side) ----
  game_info,              \* the LanGameInfo LanProxy::start was given
  p_pc,                   \* where State::serve is
  p_exit,                 \* the return serve took, once it has returned
  p_dropped,              \* the LanProxy (scope, event_tx, status_tx) was dropped
  lobby_action,           \* the LobbyAction of the current connection, once returned
  slot_status_map,        \* the map collect_pre_game_events builds and hands over
  event_ch,               \* the pre-game events in the channel(10)
  game_status,            \* the value in the watch channel
  status_seen,            \* status_rx has seen that value
  loaded_sent,            \* handle_load_screen's loaded_sent
  packets,                \* handle_load_screen's packets, until they are sent
  p_log,                  \* what handle_load_screen took from the events' channel,
                          \* sent to the client and reported to the node, in order
  lan_events,             \* LanEvents the supervisor task has sent
  n_accepted,             \* connections accepted so far
  n_events,               \* pre-game events dispatched so far
  n_self_loaded                \* GameLoadedSelf packets received so far

dvars == << slots, start_tx, start_rx, d_dropped, sent_tick, player_ack_map,
            game_player_id_lookup, chat_banned_player_ids, map, chan, action_ch,
            tick_stream, tick_pc, state_pc, pending_action, rx_open, out_open,
            d_last, n_actions >>

pvars == << game_info, p_pc, p_exit, p_dropped, lobby_action, slot_status_map, event_ch,
            game_status, status_seen, loaded_sent, packets, p_log,
            lan_events, n_accepted, n_events, n_self_loaded >>

\* the replay generator
VARIABLES
  r_game,                 \* the observer GameInfo handed to generate_replay
  r_pc,                   \* "idle", "init", "records" (initialize_replay gave Ok), "failed"
  r_err,                  \* the error generate_replay returned with, "" if none
  records,                \* the records built so far
  active_player_ids       \* the players that have not left yet

rvars == << r_game, r_pc, r_err, records, active_player_ids >>

\* the dispatcher's Mutex<Shared>, with a broadcast as the steps of its pass
VARIABLES
  lock,                   \* who holds the Mutex: "free", "state" or "tick"
  pass,                   \* each task's broadcast: the call, its target, the players
                          \* its pass has visited, the send errors it has collected
  sinks,                  \* each player's tx, the frames in its channel, the last
                          \* frame its receiver took
  n_calls                 \* broadcast calls made so far

lvars == << lock, pass, sinks, n_calls >>

\* what the players were told of each other's leaving, counted from outside
VARIABLES
  n_left,                 \* per player: the broadcasts of a PlayerLeft with its slot
                          \* player id since its last PlayerConnect
  removed                 \* per player: what took its sink, "" while it has one,
                          \* "never" until its first PlayerConnect

hvars == << n_left, removed >>

vars == << dvars, pvars, rvars, lvars, hvars >>

(***************************************************************************)
(* Construction: State::new, Shared::new, PlayerDispatchInfo::new.         *)
(***************************************************************************)
U8(n) == n % 256

SlotPlayers(s) == { s[i].player_id : i \in DOMAIN s }

SlotOf(s, p) == s[CHOOSE i \in DOMAIN s : s[i].player_id = p]

NewPlayerDispatchInfo(slot) ==
  [ ticks |-> 0, tx |-> FALSE, ban_list |-> slot.ban_list,
    slot_player_id |-> U8(slot.id + 1) ]

NewSharedMap(s) == [ p \in SlotPlayers(s) |-> NewPlayerDispatchInfo(SlotOf(s, p)) ]

NewPlayerAckMap(s) == [ p \in SlotPlayers(s) |-> 0 ]

\* a lookup keyed by the slot's id itself
NewGamePlayerIdLookupZeroBased(s) ==
  [ k \in { U8(s[i].id) : i \in DOMAIN s } |->
      s[CHOOSE i \in DOMAIN s : U8(s[i].id) = k].player_id ]

NewGamePlayerIdLookup(s) ==
  [ k \in { U8(s[i].id + 1) : i \in DOMAIN s } |->
      s[CHOOSE i \in DOMAIN s : U8(s[i].id + 1) = k].player_id ]

NewChatBannedPlayerIds(s) ==
  { s[i].player_id : i \in { j \in DOMAIN s : "Chat" \in s[j].ban_list } }

\* Dispatcher::new: start_messages
\* start messages that do not depend on the chat bans
StartMessagesAlways(banned) == << StartMessage >>

StartMessages(banned) == IF banned # {} THEN << StartMessage >> ELSE << >>

(***************************************************************************)
(* Frames.                                                                 *)
(***************************************************************************)
LeaveAckFrame == [ type |-> "LeaveAck" ]

PlayerLeftFrame(slot_player_id, reason) ==
  [ type |-> "PlayerLeft", player_id |-> slot_player_id, reason |-> reason ]

\* ChatFromHost::private_to_self(slot_player_id, message)
PrivateToSelfFrame(slot_player_id, message) ==
  [ type |-> "ChatFromHost", from_player |-> slot_player_id,
    to_players |-> << slot_player_id >>, in_game |-> TRUE, message |-> message ]

\* a ChatToHost packet whose header type was rewritten to ChatFromHost
RewrittenChatFrame(chat) ==
  [ type |-> "ChatFromHost", from_player |-> chat.from_player,
    to_players |-> chat.to_players, in_game |-> chat.in_game, message |-> "chat" ]

IncomingActionFrame(tick) ==
  [ type |-> "IncomingAction", time_increment_ms |-> tick.time_increment_ms,
    actions |-> tick.actions ]

(***************************************************************************)
(* Messages the state task receives, and what a step gives.                *)
(***************************************************************************)
NoSent == [ p \in SlotPlayers(slots) |-> << >> ]

\* what the last step was: the message or the tick task's step, its result, the
\* events it emitted and the frames it handed to each player's channel
Last(op, result, events, sent) ==
  [ op |-> op, result |-> result, events |-> events, sent |-> sent ]

NoLast == Last("", "", << >>, NoSent)

PlayerStatusChange(player_id, status, source) ==
  [ player_id |-> player_id, status |-> status, source |-> source ]

\* the slot player id the connection layer puts in a player's messages
MsgSlotPlayerId(p) ==
  IF p \in DOMAIN map THEN map[p].slot_player_id ELSE UnknownSlotPlayerId

MsgPlayers == SlotPlayers(slots) \cup { UnknownPlayerId }

(***************************************************************************)
(* PlayerDispatchInfo::send and the tokio channel behind it.  The          *)
(* dispatcher only ever learns how full a channel is and whether its       *)
(* receiver is gone; the frames a send hands over are recorded in d_last.  *)
(***************************************************************************)
NewChannel == [ len |-> 0, closed |-> FALSE ]

\* Sender::try_send
TrySend(ch) ==
  IF ch.closed THEN [ res |-> "Closed", ch |-> ch ]
  ELSE IF ch.len >= SinkCap THEN [ res |-> "ChannelFull", ch |-> ch ]
  ELSE [ res |-> "Ok", ch |-> [ ch EXCEPT !.len = @ + 1 ] ]

\* PlayerDispatchInfo::connected
Connected(info) == info.tx

\* PlayerDispatchInfo::send
Send(info, ch) ==
  IF info.tx THEN TrySend(ch)
  ELSE [ res |-> "NotConnected", ch |-> ch ]

\* a disconnect that leaves the sender in place
DisconnectKeepsSink(info) == info

\* PlayerDispatchInfo::disconnect, Option::take on tx
Disconnect(info) == [ info EXCEPT !.tx = FALSE ]

\* the frames a step handed to player p's channel
Delivered(res, frame) == IF res = "Ok" THEN << frame >> ELSE << >>

(***************************************************************************)
(* super::broadcast: the target predicates.                                *)
(***************************************************************************)
Everyone == [ kind |-> "Everyone", ids |-> {} ]
AllowList(ids) == [ kind |-> "AllowList", ids |-> ids ]
DenyList(ids) == [ kind |-> "DenyList", ids |-> ids ]

TargetContains(target, player_id) ==
  CASE target.kind = "Everyone" -> TRUE
    [] target.kind = "AllowList" -> player_id \in target.ids
    [] target.kind = "DenyList" -> player_id \notin target.ids

(***************************************************************************)
(* Shared::broadcast.  A send touches only the recipient's own channel, so *)
(* the pass over the map is given per player; the sinks found closed or    *)
(* full are cleared after the pass.                                        *)
(***************************************************************************)
BroadcastSends(m, target, p) == TargetContains(target, p) /\ Connected(m[p])

BroadcastErrors(m, c, target) ==
  { p \in DOMAIN m : BroadcastSends(m, target, p) /\ Send(m[p], c[p]).res # "Ok" }

\* a broadcast that leaves the senders it found closed or full in place
BroadcastKeepsFailedSinks(m, c, frame, target) ==
  [ map |-> m,
    chan |-> [ p \in DOMAIN c |->
                IF BroadcastSends(m, target, p) THEN Send(m[p], c[p]).ch ELSE c[p] ],
    sent |-> [ p \in DOMAIN m |->
                IF BroadcastSends(m, target, p)
                THEN Delivered(Send(m[p], c[p]).res, frame)
                ELSE << >> ] ]

Broadcast(m, c, frame, target) ==
  LET errors == BroadcastErrors(m, c, target)
  IN [ map |-> [ p \in DOMAIN m |->
                   IF p \in errors /\ Send(m[p], c[p]).res \in {"Closed", "ChannelFull"}
                   THEN Disconnect(m[p])
                   ELSE m[p] ],
       chan |-> [ p \in DOMAIN c |->
                   IF BroadcastSends(m, target, p) THEN Send(m[p], c[p]).ch ELSE c[p] ],
       sent |-> [ p \in DOMAIN m |->
                   IF BroadcastSends(m, target, p)
                   THEN Delivered(Send(m[p], c[p]).res, frame)
                   ELSE << >> ] ]

\* Shared::broadcast_message: send errors are dropped
BroadcastMessage(m, c, message) ==
  [ map |-> m,
    chan |-> [ p \in DOMAIN c |-> IF Connected(m[p]) THEN Send(m[p], c[p]).ch ELSE c[p] ],
    sent |-> [ p \in DOMAIN m |->
                 IF Connected(m[p])
                 THEN Delivered(Send(m[p], c[p]).res,
                                PrivateToSelfFrame(m[p].slot_player_id, message))
                 ELSE << >> ] ]

RECURSIVE BroadcastMessages(_, _, _)
BroadcastMessages(m, c, messages) ==
  IF messages = << >>
  THEN [ map |-> m, chan |-> c, sent |-> [ p \in DOMAIN m |-> << >> ] ]
  ELSE LET r == BroadcastMessage(m, c, Head(messages))
           rest == BroadcastMessages(r.map, r.chan, Tail(messages))
       IN [ map |-> rest.map, chan |-> rest.chan,
            sent |-> [ p \in DOMAIN m |-> r.sent[p] \o rest.sent[p] ] ]

\* Shared::dispatch_action_tick
DispatchActionTick(m, c, tick) == Broadcast(m, c, IncomingActionFrame(tick), Everyone)

(***************************************************************************)
(* Initial state: Dispatcher::new.                                         *)
(***************************************************************************)
InitD ==
  /\ slots \in SlotLists
  /\ start_tx = TRUE
  /\ start_rx = "pending"
  /\ d_dropped = FALSE
  /\ sent_tick = 0
  /\ player_ack_map = NewPlayerAckMap(slots)
  /\ game_player_id_lookup = NewGamePlayerIdLookup(slots)
  /\ chat_banned_player_ids = NewChatBannedPlayerIds(slots)
  /\ map = NewSharedMap(slots)
  /\ chan = [ p \in SlotPlayers(slots) |-> NewChannel ]
  /\ action_ch = << >>
  /\ tick_stream = << >>
  /\ tick_pc = "wait_start"
  /\ state_pc = "recv"
  /\ pending_action = [ player_id |-> 0, data |-> 0 ]
  /\ rx_open = TRUE
  /\ out_open = TRUE
  /\ d_last = NoLast
  /\ n_actions = 0

(***************************************************************************)
(* The state task: Dispatcher::serve and State::dispatch.  One step        *)
(* receives one Message and runs its whole dispatch.                       *)
(***************************************************************************)
Receiving == state_pc = "recv" /\ rx_open

\* out_tx.send(event).await.map_err(|_| Error::Cancelled)
EmitResult == IF out_open THEN "Ok" ELSE "Cancelled"
EmitEvents(event) == IF out_open THEN << event >> ELSE << >>

StateUnchanged ==
  UNCHANGED << slots, start_tx, start_rx, d_dropped, sent_tick, game_player_id_lookup,
               chat_banned_player_ids, tick_stream, tick_pc, rx_open, out_open >>

\* an ack_tick that counts for every player
AckTickEveryone(acks, player_id) == [ p \in DOMAIN acks |-> acks[p] + 1 ]

\* State::ack_tick
AckTick(acks, player_id) ==
  IF player_id \in DOMAIN acks
  THEN [ acks EXCEPT ![player_id] = @ + 1 ]
  ELSE acks

\* Message::Incoming, W3GS, OutgoingAction
IncomingOutgoingAction(player_id) ==
  LET slot_player_id == MsgSlotPlayerId(player_id)
      data == n_actions + 1    \* the payload: every action's is its own
      action == [ player_id |-> slot_player_id, data |-> data ]
  IN /\ Receiving
     /\ n_actions' = n_actions + 1
     /\ IF tick_pc = "exited"
        THEN /\ d_last' = Last("OutgoingAction", "Cancelled", << >>, NoSent)
             /\ UNCHANGED << action_ch, state_pc, pending_action >>
        ELSE IF Len(action_ch) < ActionChannelCap
        THEN /\ action_ch' = Append(action_ch, action)
             /\ d_last' = Last("OutgoingAction", "Ok", << >>, NoSent)
             /\ UNCHANGED << state_pc, pending_action >>
        ELSE /\ state_pc' = "send_wait"
             /\ pending_action' = action
             /\ d_last' = Last("OutgoingAction", "Pending", << >>, NoSent)
             /\ UNCHANGED action_ch
     /\ UNCHANGED << player_ack_map, map, chan >>
     /\ StateUnchanged

\* the OutgoingAction packets of a run
DispatchOutgoingAction(player_id) ==
  /\ n_actions < MaxActions
  /\ IncomingOutgoingAction(player_id)

\* the OutgoingAction packets of a run long enough to fill the channel
BurstOutgoingAction(player_id) ==
  /\ n_actions < MaxBurst
  /\ IncomingOutgoingAction(player_id)

\* action_tx.send(..).await completing after it had to wait for room
ActionSendReady ==
  /\ state_pc = "send_wait"
  /\ IF tick_pc = "exited"
     THEN /\ d_last' = Last("OutgoingAction", "Cancelled", << >>, NoSent)
          /\ UNCHANGED action_ch
     ELSE /\ Len(action_ch) < ActionChannelCap
          /\ action_ch' = Append(action_ch, pending_action)
          /\ d_last' = Last("OutgoingAction", "Ok", << >>, NoSent)
  /\ state_pc' = "recv"
  /\ UNCHANGED << pending_action, n_actions, player_ack_map, map, chan >>
  /\ StateUnchanged

\* a LeaveReq that broadcasts before it drops the leaver's sender
DispatchLeaveReqBroadcastFirst(player_id, reason) ==
  LET slot_player_id == MsgSlotPlayerId(player_id)
      pkt == PlayerLeftFrame(slot_player_id, reason)
  IN /\ Receiving
     /\ IF player_id \notin DOMAIN map
        THEN /\ d_last' = Last("LeaveReq", "PlayerNotFoundInGame", << >>, NoSent)
             /\ UNCHANGED << map, chan >>
        ELSE LET ack == Send(map[player_id], chan[player_id])
                 c1 == [ chan EXCEPT ![player_id] = ack.ch ]
                 b == Broadcast(map, c1, pkt, Everyone)
             IN /\ map' = [ b.map EXCEPT ![player_id] = Disconnect(@) ]
                /\ chan' = b.chan
                /\ d_last' = Last("LeaveReq", EmitResult,
                                  EmitEvents(PlayerStatusChange(player_id, "Left", "Node")),
                                  [ p \in DOMAIN map |->
                                      IF p = player_id
                                      THEN Delivered(ack.res, LeaveAckFrame) \o b.sent[p]
                                      ELSE b.sent[p] ])
     /\ UNCHANGED << player_ack_map, action_ch, state_pc, pending_action, n_actions >>
     /\ StateUnchanged

\* State::dispatch_incoming_w3gs, LeaveReq
DispatchLeaveReq(player_id, reason) ==
  LET slot_player_id == MsgSlotPlayerId(player_id)
      pkt == PlayerLeftFrame(slot_player_id, reason)
  IN /\ Receiving
     /\ IF player_id \notin DOMAIN map
        THEN /\ d_last' = Last("LeaveReq", "PlayerNotFoundInGame", << >>, NoSent)
             /\ UNCHANGED << map, chan >>
        ELSE LET ack == Send(map[player_id], chan[player_id])
                 c1 == [ chan EXCEPT ![player_id] = ack.ch ]
                 m1 == [ map EXCEPT ![player_id] = Disconnect(@) ]
                 b == Broadcast(m1, c1, pkt, DenyList({player_id}))
             IN /\ map' = b.map
                /\ chan' = b.chan
                /\ d_last' = Last("LeaveReq", EmitResult,
                                  EmitEvents(PlayerStatusChange(player_id, "Left", "Node")),
                                  [ p \in DOMAIN map |->
                                      IF p = player_id
                                      THEN Delivered(ack.res, LeaveAckFrame) \o b.sent[p]
                                      ELSE b.sent[p] ])
     /\ UNCHANGED << player_ack_map, action_ch, state_pc, pending_action, n_actions >>
     /\ StateUnchanged

\* recipients that keep the sender when it names itself
ChatRecipientsWithSender(lookup, to_players, player_id) ==
  { lookup[to_players[i]] : i \in { j \in DOMAIN to_players : to_players[j] \in DOMAIN lookup } }

\* the recipients State::dispatch_chat hands to AllowList
ChatRecipients(lookup, to_players, player_id) ==
  { lookup[to_players[i]] :
      i \in { j \in DOMAIN to_players :
                /\ to_players[j] \in DOMAIN lookup
                /\ lookup[to_players[j]] # player_id } }

\* a dispatch_chat with no early return
ChatDroppedNever(banned, player_id, chat) == FALSE

\* State::dispatch_chat: the early return
ChatDropped(banned, player_id, chat) == player_id \in banned /\ chat.in_game

DispatchChat(player_id, to_players, in_game) ==
  LET slot_player_id == MsgSlotPlayerId(player_id)
      chat == [ from_player |-> slot_player_id, to_players |-> to_players,
                in_game |-> in_game ]
  IN /\ Receiving
     /\ IF ChatDropped(chat_banned_player_ids, player_id, chat)
        THEN /\ d_last' = Last("ChatToHost", "Ok", << >>, NoSent)
             /\ UNCHANGED << map, chan >>
        ELSE LET b == Broadcast(map, chan, RewrittenChatFrame(chat),
                                AllowList(ChatRecipients(game_player_id_lookup,
                                                         to_players, player_id)))
             IN /\ map' = b.map
                /\ chan' = b.chan
                /\ d_last' = Last("ChatToHost", "Ok", << >>, b.sent)
     /\ UNCHANGED << player_ack_map, action_ch, state_pc, pending_action, n_actions >>
     /\ StateUnchanged

\* State::dispatch_incoming_w3gs, OutgoingKeepAlive
DispatchKeepAlive(player_id) ==
     /\ Receiving
     /\ player_id \in DOMAIN player_ack_map => player_ack_map[player_id] < MaxAck
     /\ player_ack_map' = AckTick(player_ack_map, player_id)
     /\ d_last' = Last("OutgoingKeepAlive", "Ok", << >>, NoSent)
     /\ UNCHANGED << map, chan, action_ch, state_pc, pending_action, n_actions >>
     /\ StateUnchanged

\* State::dispatch_incoming_w3gs, any other packet id: logged
DispatchOtherW3GS(player_id) ==
     /\ Receiving
     /\ d_last' = Last("W3GS", "Ok", << >>, NoSent)
     /\ UNCHANGED << player_ack_map, map, chan, action_ch, state_pc, pending_action,
                     n_actions >>
     /\ StateUnchanged

\* State::dispatch_incoming_flo, PacketClientUpdateSlotClientStatusRequest
DispatchIncomingFlo(player_id, status) ==
     /\ Receiving
     /\ d_last' = Last("Flo", EmitResult,
                       EmitEvents(PlayerStatusChange(player_id, status, "Client")), NoSent)
     /\ UNCHANGED << player_ack_map, map, chan, action_ch, state_pc, pending_action,
                     n_actions >>
     /\ StateUnchanged

\* a PlayerConnect that keeps the sender the player already has
DispatchPlayerConnectKeepsSender(player_id) ==
     /\ Receiving
     /\ IF player_id \notin DOMAIN map
        THEN /\ d_last' = Last("PlayerConnect", "PlayerNotFoundInGame", << >>, NoSent)
             /\ UNCHANGED << map, chan >>
        ELSE /\ map' = [ map EXCEPT ![player_id].tx = TRUE ]
             /\ chan' = IF map[player_id].tx THEN chan
                        ELSE [ chan EXCEPT ![player_id] = NewChannel ]
             /\ d_last' = Last("PlayerConnect", EmitResult,
                               EmitEvents(PlayerStatusChange(player_id, "Connected", "Node")),
                               NoSent)
     /\ UNCHANGED << player_ack_map, action_ch, state_pc, pending_action, n_actions >>
     /\ StateUnchanged

\* Message::PlayerConnect: the new sender replaces the old one, then the event
DispatchPlayerConnect(player_id) ==
     /\ Receiving
     /\ IF player_id \notin DOMAIN map
        THEN /\ d_last' = Last("PlayerConnect", "PlayerNotFoundInGame", << >>, NoSent)
             /\ UNCHANGED << map, chan >>
        ELSE /\ map' = [ map EXCEPT ![player_id].tx = TRUE ]
             /\ chan' = [ chan EXCEPT ![player_id] = NewChannel ]
             /\ d_last' = Last("PlayerConnect", EmitResult,
                               EmitEvents(PlayerStatusChange(player_id, "Connected", "Node")),
                               NoSent)
     /\ UNCHANGED << player_ack_map, action_ch, state_pc, pending_action, n_actions >>
     /\ StateUnchanged

\* Message::PlayerDisconnect: the event first, then the sink and the broadcast
DispatchPlayerDisconnect(player_id) ==
  LET slot_player_id == MsgSlotPlayerId(player_id)
      event == PlayerStatusChange(player_id, "Disconnected", "Node")
  IN /\ Receiving
     /\ IF ~out_open
        THEN /\ d_last' = Last("PlayerDisconnect", "Cancelled", << >>, NoSent)
             /\ UNCHANGED << map, chan >>
        ELSE IF player_id \notin DOMAIN map
        THEN /\ d_last' = Last("PlayerDisconnect", "PlayerNotFoundInGame", << event >>, NoSent)
             /\ UNCHANGED << map, chan >>
        ELSE IF map[player_id].tx
        THEN LET m1 == [ map EXCEPT ![player_id] = Disconnect(@) ]
                 b == Broadcast(m1, chan, PlayerLeftFrame(slot_player_id, "LeaveDisconnect"),
                                Everyone)
             IN /\ map' = b.map
                /\ chan' = b.chan
                /\ d_last' = Last("PlayerDisconnect", "Ok", << event >>, b.sent)
        ELSE /\ d_last' = Last("PlayerDisconnect", "Ok", << event >>, NoSent)
             /\ UNCHANGED << map, chan >>
     /\ UNCHANGED << player_ack_map, action_ch, state_pc, pending_action, n_actions >>
     /\ StateUnchanged

\* Dispatcher::serve leaving its loop: the scope was dropped, or rx.recv() gave None
StateExit ==
  /\ state_pc = "recv"
  /\ d_dropped \/ ~rx_open
  /\ state_pc' = "exited"
  /\ d_last' = NoLast
  /\ UNCHANGED << slots, start_tx, start_rx, d_dropped, sent_tick, player_ack_map,
                  game_player_id_lookup, chat_banned_player_ids, map, chan, action_ch,
                  tick_stream, tick_pc, pending_action, rx_open, out_open, n_actions >>

(***************************************************************************)
(* Dispatcher::start and the drop of the Dispatcher.                       *)
(***************************************************************************)
Start ==
  /\ ~d_dropped
  /\ IF start_tx
     THEN /\ start_tx' = FALSE
          /\ start_rx' = "sent"
     ELSE UNCHANGED << start_tx, start_rx >>
  /\ d_last' = NoLast
  /\ UNCHANGED << slots, d_dropped, sent_tick, player_ack_map, game_player_id_lookup,
                  chat_banned_player_ids, map, chan, action_ch, tick_stream, tick_pc,
                  state_pc, pending_action, rx_open, out_open, n_actions >>

DropDispatcher ==
  /\ ~d_dropped
  /\ d_dropped' = TRUE
  /\ start_tx' = FALSE
  /\ start_rx' = IF start_tx THEN "closed" ELSE start_rx
  /\ d_last' = NoLast
  /\ UNCHANGED << slots, sent_tick, player_ack_map, game_player_id_lookup,
                  chat_banned_player_ids, map, chan, action_ch, tick_stream, tick_pc,
                  state_pc, pending_action, rx_open, out_open, n_actions >>

(***************************************************************************)
(* The tick task: Dispatcher::tick.                                        *)
(***************************************************************************)
TickUnchanged ==
  UNCHANGED << slots, start_tx, start_rx, d_dropped, sent_tick, player_ack_map,
               game_player_id_lookup, chat_banned_player_ids, state_pc, pending_action,
               rx_open, out_open, n_actions >>

\* a tick task that does not wait for start()
TickStartUnawaited ==
  /\ tick_pc = "wait_start"
  /\ LET b == BroadcastMessages(map, chan, StartMessages(NewChatBannedPlayerIds(slots)))
     IN /\ map' = b.map
        /\ chan' = b.chan
        /\ d_last' = Last("start", "", << >>, b.sent)
  /\ tick_stream' = << >>
  /\ tick_pc' = "loop"
  /\ UNCHANGED action_ch
  /\ TickUnchanged

\* start_rx.await gave Ok: the start messages are broadcast, the loop is entered
TickStart ==
  /\ tick_pc = "wait_start"
  /\ start_rx = "sent"
  /\ LET b == BroadcastMessages(map, chan, StartMessages(NewChatBannedPlayerIds(slots)))
     IN /\ map' = b.map
        /\ chan' = b.chan
        /\ d_last' = Last("start", "", << >>, b.sent)
  /\ tick_stream' = << >>
  /\ tick_pc' = "loop"
  /\ UNCHANGED action_ch
  /\ TickUnchanged

\* start_rx.await gave Err: the sender was dropped unused
TickNotStarted ==
  /\ tick_pc = "wait_start"
  /\ start_rx = "closed"
  /\ tick_pc' = "exited"
  /\ d_last' = NoLast
  /\ UNCHANGED << map, chan, action_ch, tick_stream >>
  /\ TickUnchanged

\* a tick task that puts the newest action in front
TickAddPlayerActionInFront ==
  /\ tick_pc = "loop"
  /\ action_ch # << >>
  /\ tick_stream' = << Head(action_ch) >> \o tick_stream
  /\ action_ch' = Tail(action_ch)
  /\ d_last' = NoLast
  /\ UNCHANGED << map, chan, tick_pc >>
  /\ TickUnchanged

\* rx.recv() gave an ActionMsg::PlayerAction: tick_stream.add_player_action
TickAddPlayerAction ==
  /\ tick_pc = "loop"
  /\ action_ch # << >>
  /\ tick_stream' = Append(tick_stream, Head(action_ch))
  /\ action_ch' = Tail(action_ch)
  /\ d_last' = NoLast
  /\ UNCHANGED << map, chan, tick_pc >>
  /\ TickUnchanged

\* ActionTickStream::next: the step elapsed, the accumulated actions leave as a Tick
NextTick(actions) == [ time_increment_ms |-> GAME_DEFAULT_STEP_MS, actions |-> actions ]

TickEmit ==
  /\ tick_pc = "loop"
  /\ LET b == DispatchActionTick(map, chan, NextTick(tick_stream))
     IN /\ map' = b.map
        /\ chan' = b.chan
        /\ d_last' = Last("tick", "", << >>, b.sent)
  /\ tick_stream' = << >>
  /\ UNCHANGED << action_ch, tick_pc >>
  /\ TickUnchanged

\* the loop's select took the dropped branch
TickDropped ==
  /\ tick_pc = "loop"
  /\ d_dropped
  /\ tick_pc' = "exited"
  /\ d_last' = NoLast
  /\ UNCHANGED << map, chan, action_ch, tick_stream >>
  /\ TickUnchanged

(***************************************************************************)
(* The dispatcher's environment: the connection layer reading and dropping *)
(* the receivers of the players' channels, and the owners of the inbound   *)
(* and event channels going away.                                          *)
(***************************************************************************)
EnvUnchanged ==
  UNCHANGED << slots, start_tx, start_rx, d_dropped, sent_tick, player_ack_map,
               game_player_id_lookup, chat_banned_player_ids, map, action_ch, tick_stream,
               tick_pc, state_pc, pending_action, n_actions >>

\* the receiver of p's channel takes a frame
SinkRecv(p) ==
  /\ map[p].tx
  /\ chan[p].len > 0
  /\ chan' = [ chan EXCEPT ![p].len = @ - 1 ]
  /\ d_last' = NoLast
  /\ UNCHANGED << rx_open, out_open >>
  /\ EnvUnchanged

\* the receiver of p's channel is dropped
SinkClose(p) ==
  /\ map[p].tx
  /\ ~chan[p].closed
  /\ chan' = [ chan EXCEPT ![p] = [ len |-> 0, closed |-> TRUE ] ]
  /\ d_last' = NoLast
  /\ UNCHANGED << rx_open, out_open >>
  /\ EnvUnchanged

CloseEventSink ==
  /\ out_open
  /\ out_open' = FALSE
  /\ d_last' = NoLast
  /\ UNCHANGED << chan, rx_open >>
  /\ EnvUnchanged

CloseMessageChannel ==
  /\ rx_open
  /\ rx_open' = FALSE
  /\ d_last' = NoLast
  /\ UNCHANGED << chan, out_open >>
  /\ EnvUnchanged

(***************************************************************************)
(* The LAN proxy.  The game it is started for: the local player 21 in the  *)
(* slot with slot player id 2, two remote players, and the client status   *)
(* every slot has when the proxy starts.                                   *)
(***************************************************************************)
NodeGameStatuses == {"Waiting", "Loading", "Running", "Ended"}

LanGameInfo(status22, status23) ==
  [ game |-> [ player_id |-> 21,
               slots |-> << [ player |-> 22, client_status |-> status22 ],
                            [ player |-> 21, client_status |-> "Joined" ],
                            [ player |-> 0, client_status |-> "Pending" ],
                            [ player |-> 23, client_status |-> status23 ] >> ],
    slot_info |-> [ slot_player_id |-> 2,
                    player_infos |-> << [ player_id |-> 22, slot_player_id |-> 1 ],
                                        [ player_id |-> 21, slot_player_id |-> 2 ],
                                        [ player_id |-> 23, slot_player_id |-> 4 ] >> ] ]

LanGameInfos == { LanGameInfo("Joined", "Joined"), LanGameInfo("Joined", "Loaded") }

PreGameEvent(player_id, status) == [ player_id |-> player_id, status |-> status ]

\* the events the node sends: a remote player loads or leaves, the local player
\* loads, a player that is in no slot loads
PreGameEvents ==
  { PreGameEvent(22, "Loaded"), PreGameEvent(22, "Left"), PreGameEvent(21, "Loaded"),
    PreGameEvent(UnknownPlayerId, "Loaded") }

\* the empty slots' player is None
SlotHasPlayer(slot) == slot.player # 0

\* collect_pre_game_events: the initial map
InitialStatusMap(i) ==
  LET occupied == { k \in DOMAIN i.game.slots : SlotHasPlayer(i.game.slots[k]) }
  IN [ p \in { i.game.slots[k].player : k \in occupied } |->
         i.game.slots[CHOOSE k \in occupied : i.game.slots[k].player = p].client_status ]

\* HashMap::insert
MapInsert(m, k, v) == [ x \in DOMAIN m \cup {k} |-> IF x = k THEN v ELSE m[x] ]

\* get_player_loaded_packet
SlotResolved(i, player_id) ==
  \E k \in DOMAIN i.slot_info.player_infos : i.slot_info.player_infos[k].player_id = player_id

PlayerLoadedPacket(slot_player_id) ==
  [ to |-> "client", type |-> "PlayerLoaded", player_id |-> slot_player_id ]

GetPlayerLoadedPacket(i, player_id) ==
  LET k == CHOOSE k \in DOMAIN i.slot_info.player_infos :
             i.slot_info.player_infos[k].player_id = player_id
  IN PlayerLoadedPacket(i.slot_info.player_infos[k].slot_player_id)

LeaveAckPacket == [ to |-> "client", type |-> "LeaveAck" ]

\* node_stream.report_slot_status
Report(status) == [ to |-> "node", status |-> status ]

\* the orders in which a HashMap may yield the keys in S
Orders(S) ==
  { seq \in [ 1..Cardinality(S) -> S ] : \A a, b \in DOMAIN seq : a # b => seq[a] # seq[b] }

\* a loop over the initial map that does not skip the local player
ReplayPlayersWithLocal(m, my_player_id) == { p \in DOMAIN m : m[p] = "Loaded" }

\* handle_load_screen, "check pre game packets": the players the loop over the
\* initial map pushes a packet for
ReplayPlayers(m, my_player_id) ==
  { p \in DOMAIN m : m[p] = "Loaded" /\ p # my_player_id }

\* serve has not returned
NotReturned == [ exit |-> "", status |-> "None" ]

InitP ==
  /\ game_info \in LanGameInfos
  /\ p_pc = "accept"
  /\ p_exit = NotReturned
  /\ p_dropped = FALSE
  /\ lobby_action = "None"
  /\ slot_status_map = InitialStatusMap(game_info)
  /\ event_ch = << >>
  /\ game_status = "None"
  /\ status_seen = FALSE
  /\ loaded_sent = << >>
  /\ packets = << >>
  /\ p_log = << >>
  /\ lan_events = << >>
  /\ n_accepted = 0
  /\ n_events = 0
  /\ n_self_loaded = 0

(***************************************************************************)
(* The proxy's owner: LanProxy's methods and its drop.                     *)
(***************************************************************************)
\* serve holds the receivers of the two channels and the node stream until it
\* returns; handle_load_screen drops the events' receiver when it returns
Serving == p_pc \notin {"exited", "done"}

EventReceiverHeld == Serving /\ p_pc # "game"

\* LanProxy::dispatch_pre_game_event: the send fails once the receiver is gone
DispatchPreGameEvent(event) ==
  /\ ~p_dropped
  /\ EventReceiverHeld
  /\ n_events < MaxEvents
  /\ Len(event_ch) < EventChannelCap
  /\ event_ch' = Append(event_ch, event)
  /\ n_events' = n_events + 1
  /\ UNCHANGED << game_info, p_pc, p_exit, p_dropped, lobby_action, slot_status_map,
                  game_status, status_seen, loaded_sent, packets,
                  p_log, lan_events, n_accepted, n_self_loaded >>

\* LanProxy::dispatch_game_status_change
DispatchGameStatusChange(status) ==
  /\ ~p_dropped
  /\ game_status' = status
  /\ status_seen' = FALSE
  /\ UNCHANGED << game_info, p_pc, p_exit, p_dropped, lobby_action, slot_status_map, event_ch,
                  loaded_sent, packets, p_log, lan_events,
                  n_accepted, n_events, n_self_loaded >>

DropProxy ==
  /\ ~p_dropped
  /\ p_dropped' = TRUE
  /\ UNCHANGED << game_info, p_pc, p_exit, lobby_action, slot_status_map, event_ch,
                  game_status, status_seen, loaded_sent, packets,
                  p_log, lan_events, n_accepted, n_events, n_self_loaded >>

InLoad == p_pc \in {"load_report", "load_replay", "load", "load_self", "load_leave"}

(***************************************************************************)
(* State::serve.                                                           *)
(***************************************************************************)
\* the Load Screen block ends: its event_rx, and handle_load_screen's locals, are
\* dropped
LoadLocalsDropped ==
  /\ event_ch' = << >>
  /\ loaded_sent' = << >>
  /\ packets' = << >>

\* serve returns, and drops what it holds: what is left to the spawned task is
\* the GameDisconnected event
ReturnWith(res) ==
  /\ p_pc' = "exited"
  /\ p_exit' = res
  /\ status_seen' = FALSE
  /\ LoadLocalsDropped

Return(exit) == ReturnWith([ exit |-> exit, status |-> "None" ])

\* Err(Error::UnexpectedNodeGameStatus(other))
UnexpectedNodeGameStatus(other) == [ exit |-> "unexpected_node_game_status", status |-> other ]

\* handle_load_screen returned Ok(()): "all player loaded", the game loop
GameLoop ==
  /\ p_pc' = "game"
  /\ LoadLocalsDropped
  /\ UNCHANGED p_exit

\* serve goes on, to pc
Goto(pc) ==
  /\ p_pc' = pc
  /\ UNCHANGED p_exit

LobbyLocalsUnchanged == UNCHANGED << event_ch, loaded_sent, packets, status_seen >>

ServeUnchanged ==
  UNCHANGED << game_info, p_dropped, slot_status_map, game_status, p_log, lan_events,
               n_events, n_self_loaded >>

\* listener.incoming() gave a stream: the lobby handler is started on it
Accept ==
  /\ p_pc = "accept"
  /\ n_accepted < MaxAccepts
  /\ n_accepted' = n_accepted + 1
  /\ Goto("lobby")
  /\ lobby_action' = "None"
  /\ LobbyLocalsUnchanged
  /\ ServeUnchanged

\* listener.incoming() gave Err: logged, the loop goes on
AcceptError ==
  /\ p_pc = "accept"
  /\ Goto("accept")
  /\ UNCHANGED << lobby_action, n_accepted >>
  /\ LobbyLocalsUnchanged
  /\ ServeUnchanged

\* listener.incoming() gave Ok(None)
ListenerEnded ==
  /\ p_pc = "accept"
  /\ Return("listener_ended")
  /\ UNCHANGED << lobby_action, n_accepted >>
  /\ ServeUnchanged

\* a select of serve took the dropped branch
ScopeDropped ==
  /\ p_dropped
  /\ \/ p_pc \in {"accept", "lobby"} /\ Return("dropped_lobby")
     \/ InLoad /\ Return("dropped_load")
     \/ p_pc = "game" /\ Return("dropped_game")
  /\ UNCHANGED << lobby_action, n_accepted >>
  /\ ServeUnchanged

\* the collector is polled in the Lobby's selects and awaited after the stop
CollectorPolled == p_pc \in {"accept", "lobby", "collect"}

\* collect_pre_game_events: rx.recv() gave an event
CollectorEvent ==
  /\ CollectorPolled
  /\ event_ch # << >>
  /\ slot_status_map' = MapInsert(slot_status_map, Head(event_ch).player_id,
                                  Head(event_ch).status)
  /\ event_ch' = Tail(event_ch)
  /\ UNCHANGED << game_info, p_pc, p_exit, p_dropped, lobby_action, game_status, status_seen,
                  loaded_sent, packets, p_log, lan_events, n_accepted, n_events, n_self_loaded >>

\* collect_pre_game_events: rx.recv() gave None, the collector returns None and
\* serve returns
CollectorEnded ==
  /\ CollectorPolled
  /\ event_ch = << >>
  /\ p_dropped
  /\ Return("collector_ended")
  /\ UNCHANGED << lobby_action, n_accepted >>
  /\ ServeUnchanged

\* a collector that hands over the map with a receiver emptied of what it held
CollectorStoppedDrains ==
  /\ p_pc = "collect"
  /\ Goto("load_report")
  /\ event_ch' = << >>
  /\ UNCHANGED << lobby_action, n_accepted, loaded_sent, packets, status_seen >>
  /\ ServeUnchanged

\* collect_pre_game_events: the stop signal; the map and the receiver go to
\* handle_load_screen
CollectorStopped ==
  /\ p_pc = "collect"
  /\ Goto("load_report")
  /\ UNCHANGED << lobby_action, n_accepted >>
  /\ LobbyLocalsUnchanged
  /\ ServeUnchanged

(***************************************************************************)
(* LobbyHandler::run, as far as serve depends on it: it ends with Start    *)
(* when it sees the node game status Loading, with Leave when the client   *)
(* leaves or its stream fails, and with an error when the node stream      *)
(* fails.                                                                  *)
(***************************************************************************)
LobbySeesStatus ==
  /\ p_pc = "lobby"
  /\ ~status_seen
  /\ status_seen' = TRUE
  /\ IF game_status = "Loading"
     THEN /\ lobby_action' = "Start"
          /\ Goto("collect")            \* break stream; the stop is sent
     ELSE UNCHANGED << lobby_action, p_pc, p_exit >>
  /\ UNCHANGED << event_ch, loaded_sent, packets, n_accepted >>
  /\ ServeUnchanged

\* a Leave that ends serve
LobbyLeaveEnds ==
  /\ p_pc = "lobby"
  /\ Return("lobby_leave")
  /\ lobby_action' = "Leave"
  /\ UNCHANGED n_accepted
  /\ ServeUnchanged

LobbyLeave ==
  /\ p_pc = "lobby"
  /\ lobby_action' = "Leave"
  /\ Goto("accept")                     \* continue
  /\ UNCHANGED n_accepted
  /\ LobbyLocalsUnchanged
  /\ ServeUnchanged

LobbyError ==
  /\ p_pc = "lobby"
  /\ Return("lobby_error")              \* res?
  /\ UNCHANGED << lobby_action, n_accepted >>
  /\ ServeUnchanged

(***************************************************************************)
(* State::handle_load_screen.  What it does on a stream either succeeds or *)
(* fails: the actions take that result as node_ok or client_ok.            *)
(***************************************************************************)
LoadUnchanged ==
  UNCHANGED << game_info, p_dropped, lobby_action, slot_status_map, game_status,
               lan_events, n_accepted, n_events >>

\* the loop goes on
LoadLoop(log, sent) ==
  /\ Goto("load")
  /\ p_log' = log
  /\ loaded_sent' = sent
  /\ packets' = << >>
  /\ UNCHANGED status_seen

\* an error leaves handle_load_screen, and serve, by ?
LoadError(exit) ==
  /\ Return(exit)
  /\ UNCHANGED p_log

\* report_slot_status(Loading), then the loop over the initial map
LoadReportLoading(node_ok) ==
  /\ p_pc = "load_report"
  /\ IF ~node_ok
     THEN LoadError("load_error")
     ELSE \E order \in Orders(ReplayPlayers(slot_status_map, game_info.game.player_id)) :
            IF \E k \in DOMAIN order : ~SlotResolved(game_info, order[k])
            THEN \* get_player_loaded_packet(..)?
                 /\ Return("load_error")
                 /\ p_log' = Append(p_log, Report("Loading"))
            ELSE /\ p_log' = Append(p_log, Report("Loading"))
                 /\ loaded_sent' = order
                 /\ packets' = [ k \in DOMAIN order |->
                                   GetPlayerLoadedPacket(game_info, order[k]) ]
                 /\ Goto(IF order = << >> THEN "load" ELSE "load_replay")
                 /\ UNCHANGED << event_ch, status_seen >>
  /\ UNCHANGED n_self_loaded
  /\ LoadUnchanged

\* stream.send_all(packets)
LoadReplay(client_ok) ==
  /\ p_pc = "load_replay"
  /\ IF client_ok
     THEN LoadLoop(p_log \o packets, loaded_sent) /\ UNCHANGED event_ch
     ELSE LoadError("load_error")
  /\ UNCHANGED n_self_loaded
  /\ LoadUnchanged

\* a handler that reports Loaded to the node before it answers the client
LoadGameLoadedSelfReportsFirst(client_ok) ==
  /\ p_pc = "load"
  /\ n_self_loaded < MaxSelfLoaded
  /\ n_self_loaded' = n_self_loaded + 1
  /\ IF client_ok
     THEN /\ p_log' = Append(p_log, Report("Loaded"))
          /\ Goto("load_self")
          /\ UNCHANGED << event_ch, loaded_sent, packets, status_seen >>
     ELSE LoadError("load_error")
  /\ LoadUnchanged

\* stream.recv() gave GameLoadedSelf: PlayerLoaded for the local slot goes to the client
LoadGameLoadedSelf(client_ok) ==
  /\ p_pc = "load"
  /\ n_self_loaded < MaxSelfLoaded
  /\ n_self_loaded' = n_self_loaded + 1
  /\ IF client_ok
     THEN /\ p_log' = Append(p_log, PlayerLoadedPacket(game_info.slot_info.slot_player_id))
          /\ Goto("load_self")
          /\ UNCHANGED << event_ch, loaded_sent, packets, status_seen >>
     ELSE LoadError("load_error")
  /\ LoadUnchanged

\* ... then report_slot_status(Loaded)
LoadReportLoaded(node_ok) ==
  /\ p_pc = "load_self"
  /\ IF node_ok
     THEN LoadLoop(Append(p_log, Report("Loaded")), loaded_sent) /\ UNCHANGED event_ch
     ELSE LoadError("load_error")
  /\ UNCHANGED n_self_loaded
  /\ LoadUnchanged

\* stream.recv() gave LeaveReq: report_slot_status(Connected), its result dropped
LoadLeaveReq(node_ok) ==
  /\ p_pc = "load"
  /\ p_log' = IF node_ok THEN Append(p_log, Report("Connected")) ELSE p_log
  /\ Goto("load_leave")
  /\ UNCHANGED << event_ch, loaded_sent, packets, status_seen, n_self_loaded >>
  /\ LoadUnchanged

\* ... then LeaveAck, flush and break: handle_load_screen returns Ok(())
LoadLeaveAck(client_ok) ==
  /\ p_pc = "load_leave"
  /\ IF client_ok
     THEN /\ p_log' = Append(p_log, LeaveAckPacket)
          /\ GameLoop
          /\ UNCHANGED status_seen
     ELSE LoadError("load_error")
  /\ UNCHANGED n_self_loaded
  /\ LoadUnchanged

\* stream.recv() gave any other packet: a warning
LoadUnexpectedPacket ==
  /\ p_pc = "load"
  /\ LoadLoop(p_log, loaded_sent)
  /\ UNCHANGED << event_ch, n_self_loaded >>
  /\ LoadUnchanged

\* stream.recv() gave an error, or None (StreamClosed)
LoadClientClosed ==
  /\ p_pc = "load"
  /\ LoadError("load_error")
  /\ UNCHANGED n_self_loaded
  /\ LoadUnchanged

\* a PlayerStatusChange event, as the log has it
Received(event) ==
  [ from |-> "events", player_id |-> event.player_id, status |-> event.status ]

\* a test of the event branch that does not look at loaded_sent
NeedsPlayerLoadedAgain(event, my_player_id, sent) ==
  /\ event.status = "Loaded"
  /\ event.player_id # my_player_id

\* the test of the event branch: a Loaded remote player with no packet sent yet
NeedsPlayerLoaded(event, my_player_id, sent) ==
  /\ event.status = "Loaded"
  /\ event.player_id # my_player_id
  /\ \A k \in DOMAIN sent : sent[k] # event.player_id

\* event_rx.recv() gave a PlayerStatusChange
LoadEvent(client_ok) ==
  /\ p_pc = "load"
  /\ event_ch # << >>
  /\ LET event == Head(event_ch)
         log == Append(p_log, Received(event))
     IN IF NeedsPlayerLoaded(event, game_info.game.player_id, loaded_sent)
        THEN IF SlotResolved(game_info, event.player_id) /\ client_ok
             THEN /\ LoadLoop(Append(log, GetPlayerLoadedPacket(game_info, event.player_id)),
                              Append(loaded_sent, event.player_id))
                  /\ event_ch' = Tail(event_ch)
             ELSE /\ Return("load_error")
                  /\ p_log' = log
        ELSE /\ LoadLoop(log, loaded_sent)
             /\ event_ch' = Tail(event_ch)
  /\ UNCHANGED n_self_loaded
  /\ LoadUnchanged

\* event_rx.recv() gave None: break, handle_load_screen returns Ok(())
LoadEventsEnded ==
  /\ p_pc = "load"
  /\ event_ch = << >>
  /\ p_dropped
  /\ GameLoop
  /\ UNCHANGED << p_log, status_seen, n_self_loaded >>
  /\ LoadUnchanged

\* a status branch that takes Running only once the local client has loaded
LoadStatusAfterSelfLoaded ==
  /\ p_pc = "load"
  /\ ~status_seen
  /\ CASE game_status \in {"None", "Loading"} \/ (game_status = "Running" /\ n_self_loaded = 0) ->
            /\ status_seen' = TRUE
            /\ UNCHANGED << p_pc, p_exit, event_ch, loaded_sent, packets >>
       [] game_status = "Running" /\ n_self_loaded > 0 ->
            /\ status_seen' = TRUE
            /\ GameLoop
       [] OTHER -> ReturnWith(UnexpectedNodeGameStatus(game_status))
  /\ UNCHANGED << p_log, n_self_loaded >>
  /\ LoadUnchanged

\* a status branch that takes Ended as the end of the load screen
LoadStatusEndedIsOk ==
  /\ p_pc = "load"
  /\ ~status_seen
  /\ CASE game_status \in {"None", "Loading"} ->
            /\ status_seen' = TRUE
            /\ UNCHANGED << p_pc, p_exit, event_ch, loaded_sent, packets >>
       [] game_status \in {"Running", "Ended"} ->
            /\ status_seen' = TRUE
            /\ GameLoop
       [] OTHER -> ReturnWith(UnexpectedNodeGameStatus(game_status))
  /\ UNCHANGED << p_log, n_self_loaded >>
  /\ LoadUnchanged

\* status_rx.recv() gave a value
LoadStatus ==
  /\ p_pc = "load"
  /\ ~status_seen
  /\ CASE game_status \in {"None", "Loading"} ->
            /\ status_seen' = TRUE
            /\ UNCHANGED << p_pc, p_exit, event_ch, loaded_sent, packets >>
       [] game_status = "Running" ->
            /\ status_seen' = TRUE
            /\ GameLoop                 \* return Ok(())
       [] OTHER -> ReturnWith(UnexpectedNodeGameStatus(game_status))
  /\ UNCHANGED << p_log, n_self_loaded >>
  /\ LoadUnchanged

\* status_rx.recv() gave None: the sender is gone
LoadStatusClosed ==
  /\ p_pc = "load"
  /\ status_seen
  /\ p_dropped
  /\ LoadError("load_error")
  /\ UNCHANGED n_self_loaded
  /\ LoadUnchanged

(***************************************************************************)
(* GameHandler::run, as far as serve depends on it: it returns, with a     *)
(* result or an error.                                                     *)
(***************************************************************************)
GameReturns(exit) ==
  /\ p_pc = "game"
  /\ Return(exit)
  /\ UNCHANGED << lobby_action, n_accepted >>
  /\ ServeUnchanged

(***************************************************************************)
(* LanProxy::start, the spawned task after serve has returned.             *)
(***************************************************************************)
\* a task that sends the event only when serve returned Ok
SendGameDisconnectedIfOk ==
  /\ p_pc = "exited"
  /\ lan_events' = IF p_exit.exit \in {"lobby_error", "load_error", "unexpected_node_game_status",
                                   "game_error"}
                   THEN lan_events
                   ELSE Append(lan_events, "GameDisconnected")
  /\ p_pc' = "done"
  /\ UNCHANGED << game_info, p_exit, p_dropped, lobby_action, slot_status_map, event_ch,
                  game_status, status_seen, loaded_sent, packets, p_log, n_accepted,
                  n_events, n_self_loaded >>

SendGameDisconnected ==
  /\ p_pc = "exited"
  /\ lan_events' = Append(lan_events, "GameDisconnected")
  /\ p_pc' = "done"
  /\ UNCHANGED << game_info, p_exit, p_dropped, lobby_action, slot_status_map, event_ch,
                  game_status, status_seen, loaded_sent, packets, p_log, n_accepted,
                  n_events, n_self_loaded >>

(***************************************************************************)
(* The replay generator: crates/replay.  A game has 24 slots; a slot is    *)
(* open, or occupied by a player, by a player on the observers' team 24,   *)
(* or by a computer.                                                       *)
(***************************************************************************)
FLO_OB_SLOT == 23

index_to_player_id(index) == U8(index + 1)

FLO_PLAYER_ID == index_to_player_id(FLO_OB_SLOT)

GameSlot(kind) ==
  [ status |-> IF kind = "Open" THEN "Open" ELSE "Occupied",
    player |-> kind \in {"Player", "Observer"},
    team |-> IF kind = "Observer" THEN 24 ELSE IF kind = "Computer" THEN 1 ELSE 0 ]

SlotKinds == {"Open", "Player", "Observer", "Computer"}

\* the slots with indexes 0, 1, 22 and 23 vary, the others are open
ObserverGameInfo(k0, k1, k22, k23) ==
  [ slots |-> [ n \in 1..24 |->
                  GameSlot(IF n = 1 THEN k0 ELSE IF n = 2 THEN k1
                           ELSE IF n = 23 THEN k22 ELSE IF n = 24 THEN k23 ELSE "Open") ] ]

ObserverGameInfos ==
  { ObserverGameInfo(k0, k1, k22, k23) : k0 \in SlotKinds, k1 \in SlotKinds,
                                         k22 \in SlotKinds, k23 \in SlotKinds }

\* game.slots.iter().enumerate(): the indexes, from 0
SlotIndexes(game) == { n - 1 : n \in DOMAIN game.slots }
SlotAt(game, i) == game.slots[i + 1]

Min(S) == CHOOSE x \in S : \A y \in S : x <= y

\* a set of indexes as the list in ascending order
RECURSIVE Ascending(_)
Ascending(S) == IF S = {} THEN << >> ELSE << Min(S) >> \o Ascending(S \ { Min(S) })

\* regenerate_game_info: the occupied slots and the first player among them
OccupiedSlots(game) == { i \in SlotIndexes(game) : SlotAt(game, i).status = "Occupied" }

regenerate_game_info(game) ==
  LET occupied_slots == OccupiedSlots(game)
      with_player == { i \in occupied_slots : SlotAt(game, i).player }
  IN IF with_player = {}
     THEN [ err |-> "GameHasNoPlayer" ]
     ELSE [ err |-> "",
            game_info |-> [ type |-> "GameInfo",
                            player_id |-> index_to_player_id(Min(with_player)) ],
            occupied_slots |-> occupied_slots,
            first_player_id |-> index_to_player_id(Min(with_player)) ]

\* a check that lets an occupied FLO_OB slot pass
check_flo_ob_slot_passes(occupied_slots) ==
  [ err |-> "", flo_ob_slot_occupied |-> FLO_OB_SLOT \in occupied_slots ]

check_flo_ob_slot_not_occupied(occupied_slots) ==
  LET flo_ob_slot_occupied == FLO_OB_SLOT \in occupied_slots
  IN IF flo_ob_slot_occupied
     THEN [ err |-> "FloObserverSlotOccupied" ]
     ELSE [ err |-> "", flo_ob_slot_occupied |-> flo_ob_slot_occupied ]

\* fill_out_player_details: every slot with a player, occupied or not
PlayerInfoRecord(player_id) == [ type |-> "PlayerInfo", player_id |-> player_id ]
PlayerSkins(player_id) == [ type |-> "PlayerSkins", player_id |-> player_id ]
PlayerProfile(player_id) == [ type |-> "PlayerProfile", player_id |-> player_id ]
PlayerUnknown5(player_id) == [ type |-> "PlayerUnknown5", player_id |-> player_id ]

fill_out_player_details(game) ==
  LET ids == Ascending({ i \in SlotIndexes(game) : SlotAt(game, i).player })
      player_ids == [ n \in DOMAIN ids |-> index_to_player_id(ids[n]) ]
  IN [ player_infos |-> [ n \in 1..(Len(player_ids) - 1) |-> PlayerInfoRecord(player_ids[n + 1]) ]
                          \o << PlayerInfoRecord(FLO_PLAYER_ID) >>,
       player_skins |-> [ n \in DOMAIN player_ids |-> PlayerSkins(player_ids[n]) ],
       player_profiles |-> [ n \in DOMAIN player_ids |-> PlayerProfile(player_ids[n]) ]
                             \o << PlayerProfile(FLO_PLAYER_ID) >>,
       active_player_ids |-> player_ids ]

\* SlotInfo::build: a slot nobody was assigned to
UnassignedSlotData ==
  [ player_id |-> 0, slot_status |-> "Open", team |-> 0, computer |-> FALSE ]

\* build_initial_records, 4 SlotInfo
BuildSlotInfo(game, occupied_slots, flo_ob_slot_occupied) ==
  LET assigned == [ i \in 0..23 |->
                     IF i \notin occupied_slots THEN UnassignedSlotData
                     ELSE [ player_id |-> IF SlotAt(game, i).player
                                          THEN index_to_player_id(i) ELSE 0,
                            slot_status |-> "Occupied",
                            team |-> U8(SlotAt(game, i).team),
                            computer |-> ~SlotAt(game, i).player ] ]
  IN [ type |-> "SlotInfo",
       num_slots |-> 24,
       num_players |-> Cardinality({ i \in occupied_slots :
                                       SlotAt(game, i).team # 24 /\ SlotAt(game, i).player }),
       slots |-> IF flo_ob_slot_occupied THEN assigned
                 ELSE [ assigned EXCEPT
                          ![FLO_OB_SLOT] = [ @ EXCEPT
                             !.player_id = index_to_player_id(FLO_OB_SLOT),
                             !.slot_status = "Occupied",
                             !.team = 24 ] ] ]

build_initial_records(first_game_info, details, flo_ob_slot_occupied, first_player_id, game, occupied_slots) ==
  LET my_id == IF flo_ob_slot_occupied THEN first_player_id
                                       ELSE index_to_player_id(FLO_OB_SLOT)
      ack_player_profile_count ==
        (IF flo_ob_slot_occupied THEN 0 ELSE 1) + Cardinality(occupied_slots) - 1
  IN << first_game_info >>
     \o details.player_infos
     \o details.player_skins
     \o details.player_profiles
     \o << PlayerSkins(my_id), PlayerUnknown5(my_id) >>
     \o [ n \in 1..ack_player_profile_count |-> PlayerProfile(my_id) ]
     \o << BuildSlotInfo(game, occupied_slots, flo_ob_slot_occupied) >>
     \o << [ type |-> "CountDownStart" ], [ type |-> "CountDownEnd" ],
           [ type |-> "GameStart" ] >>

initialize_replay(game) ==
  LET info == regenerate_game_info(game)
  IN IF info.err # "" THEN [ err |-> info.err ]
     ELSE LET check == check_flo_ob_slot_not_occupied(info.occupied_slots)
          IN IF check.err # "" THEN [ err |-> check.err ]
             ELSE LET details == fill_out_player_details(game)
                  IN [ err |-> "",
                       records |-> build_initial_records(info.game_info, details,
                                     check.flo_ob_slot_occupied, info.first_player_id,
                                     game, info.occupied_slots),
                       active_player_ids |-> details.active_player_ids ]

InitR ==
  /\ r_game \in ObserverGameInfos
  /\ r_pc = "init"
  /\ r_err = ""
  /\ records = << >>
  /\ active_player_ids = << >>

\* generate_replay has not been called
InitIdle ==
  /\ r_game = [ slots |-> << >> ]
  /\ r_pc = "idle"
  /\ r_err = ""
  /\ records = << >>
  /\ active_player_ids = << >>

\* generate_replay: let (mut records, mut active_player_ids) = initialize_replay(&game)?
InitializeReplay ==
  /\ r_pc = "init"
  /\ LET res == initialize_replay(r_game)
     IN IF res.err # ""
        THEN /\ r_pc' = "failed"
             /\ r_err' = res.err
             /\ UNCHANGED << records, active_player_ids >>
        ELSE /\ r_pc' = "records"
             /\ records' = res.records
             /\ active_player_ids' = res.active_player_ids
             /\ UNCHANGED r_err
  /\ UNCHANGED r_game

(***************************************************************************)
(* The Mutex<Shared> and the two tasks that broadcast under it.  The       *)
(* state task (PlayerConnect, PlayerDisconnect, LeaveReq, chat) and the    *)
(* tick task (dispatch_action_tick) run on different threads; each takes   *)
(* the lock, runs the pass of Shared::broadcast over the BTreeMap, clears  *)
(* the senders that failed and lets the guard go.  Here the pass is one    *)
(* step per player, so that what the lock excludes can be seen.  A frame   *)
(* is known by the call that sent it.                                      *)
(***************************************************************************)
Tasks == {"state", "tick"}

LockPlayers == SlotPlayers(SlotList({}))

\* the frame of the n-th broadcast call, made by task t
CallFrame(n, t) == [ call |-> n, task |-> t ]

NoFrame == CallFrame(0, "")

IdlePass == [ pc |-> "idle", call |-> 0, target |-> Everyone, visited |-> << >>, errors |-> {} ]

NoSink == [ tx |-> FALSE, queue |-> << >>, got |-> NoFrame ]

InitL ==
  /\ lock = "free"
  /\ pass = [ t \in Tasks |-> IdlePass ]
  /\ sinks = [ p \in LockPlayers |-> NoSink ]
  /\ n_calls = 0

\* a Mutex that lets a second holder in
LockAlwaysAvailable == TRUE

\* Mutex::lock returns when nobody holds the guard
LockAvailable == lock = "free"

\* the targets each task broadcasts to: dispatch_action_tick to Everyone, the
\* state task to Everyone, to all but the leaver, to a chat's recipients
TaskTargets(t) ==
  IF t = "tick" THEN { Everyone }
  ELSE { Everyone, DenyList({12}), AllowList({12, 13}) }

\* Message::PlayerConnect, under the lock for the one statement: tx.replace(tx)
LockedConnect(p) ==
  /\ LockAvailable
  /\ pass["state"].pc = "idle"
  /\ sinks' = [ sinks EXCEPT ![p] = [ tx |-> TRUE, queue |-> << >>, got |-> NoFrame ] ]
  /\ UNCHANGED << lock, pass, n_calls >>

\* shared.lock() and the call of broadcast
LockedBroadcast(t, target) ==
  /\ LockAvailable
  /\ pass[t].pc = "idle"
  /\ n_calls < MaxCalls
  /\ lock' = t
  /\ n_calls' = n_calls + 1
  /\ pass' = [ pass EXCEPT ![t] = [ pc |-> "pass", call |-> n_calls + 1, target |-> target,
                                    visited |-> << >>, errors |-> {} ] ]
  /\ UNCHANGED sinks

\* the players map.iter_mut() has not come to yet
Unvisited(t) == LockPlayers \ { pass[t].visited[i] : i \in DOMAIN pass[t].visited }

\* one turn of the filter_map over map.iter_mut(): the next player of the map,
\* try_send if it is in the target and connected
PassVisit(t) ==
  /\ pass[t].pc = "pass"
  /\ Unvisited(t) # {}
  /\ LET p == Min(Unvisited(t))
         hit == TargetContains(pass[t].target, p) /\ sinks[p].tx
         full == Len(sinks[p].queue) >= SinkCap
     IN /\ pass' = [ pass EXCEPT ![t].visited = Append(@, p),
                                 ![t].errors = IF hit /\ full THEN @ \cup {p} ELSE @ ]
        /\ sinks' = IF hit /\ ~full
                    THEN [ sinks EXCEPT ![p].queue = Append(@, CallFrame(pass[t].call, t)) ]
                    ELSE sinks
  /\ UNCHANGED << lock, n_calls >>

\* the pass is over: the senders that failed are taken, the guard is dropped
PassEnd(t) ==
  /\ pass[t].pc = "pass"
  /\ Unvisited(t) = {}
  /\ sinks' = [ p \in LockPlayers |->
                  IF p \in pass[t].errors THEN [ sinks[p] EXCEPT !.tx = FALSE ] ELSE sinks[p] ]
  /\ pass' = [ pass EXCEPT ![t] = IdlePass ]
  /\ lock' = "free"
  /\ UNCHANGED n_calls

\* the receiver of p's channel takes a frame
SinkTake(p) ==
  /\ sinks[p].queue # << >>
  /\ sinks' = [ sinks EXCEPT ![p].got = Head(sinks[p].queue), ![p].queue = Tail(@) ]
  /\ UNCHANGED << lock, pass, n_calls >>

(***************************************************************************)
(* The count of the PlayerLeft broadcasts about each player, kept beside   *)
(* the state task: it is read from what a dispatch handed to the players'  *)
(* channels and changes nothing the dispatcher does.                       *)
(***************************************************************************)
InitH ==
  /\ n_left = [ p \in LockPlayers |-> 0 ]
  /\ removed = [ p \in LockPlayers |-> "never" ]

\* the PlayerLeft frames that carry p's slot player id
PlayerLeftFrames(p) ==
  { PlayerLeftFrame(map[p].slot_player_id, reason) : reason \in LeaveReasons \cup { "LeaveDisconnect" } }

\* the players a step handed a PlayerLeft of p
LeftAnnouncedTo(p, last) ==
  { q \in DOMAIN last.sent : \E i \in DOMAIN last.sent[q] : last.sent[q][i] \in PlayerLeftFrames(p) }

\* the dispatch of a message op about player q, as the count sees it
Observed(op, q) ==
  /\ n_left' = [ p \in DOMAIN n_left |->
                   IF op = "PlayerConnect" /\ p = q THEN 0
                   ELSE IF removed[p] # "never" /\ LeftAnnouncedTo(p, d_last') # {}
                   THEN n_left[p] + 1
                   ELSE n_left[p] ]
  /\ removed' = [ p \in DOMAIN removed |->
                    IF map'[p].tx THEN ""
                    ELSE IF map[p].tx THEN (IF p = q THEN op ELSE "broadcast")
                    ELSE removed[p] ]

\* the count of q has not come to the bound
LeftBelowBound(q) == q \in DOMAIN n_left => n_left[q] < MaxLeft

(***************************************************************************)
(* Specifications.  The dispatcher's behaviours are explored under several *)
(* environments, each sending the messages one group of properties is      *)
(* about, in every order and number the bounds allow.                      *)
(***************************************************************************)
Init == InitD /\ InitP /\ InitR /\ InitL /\ InitH

\* the dispatcher's specifications leave the proxy as it is constructed for one
\* game, the proxy's leave the dispatcher as it is constructed for one slot list
InitDispatcher == InitD /\ InitP /\ InitIdle /\ InitL /\ InitH /\ game_info = LanGameInfo("Joined", "Joined")

InitProxy == InitD /\ InitP /\ InitIdle /\ InitL /\ InitH /\ slots = SlotList({})

InitReplay == Init /\ slots = SlotList({}) /\ game_info = LanGameInfo("Joined", "Joined")

\* players joining and leaving, with the tick task running
NextD ==
  \/ (\E p \in MsgPlayers : DispatchPlayerConnect(p)) /\ UNCHANGED << pvars, rvars, lvars, hvars >>
  \/ (\E p \in MsgPlayers : DispatchPlayerDisconnect(p)) /\ UNCHANGED << pvars, rvars, lvars, hvars >>
  \/ (\E p \in MsgPlayers, reason \in LeaveReasons : DispatchLeaveReq(p, reason)) /\ UNCHANGED << pvars, rvars, lvars, hvars >>
  \/ (Start) /\ UNCHANGED << pvars, rvars, lvars, hvars >>
  \/ (TickStart) /\ UNCHANGED << pvars, rvars, lvars, hvars >>
  \/ (TickEmit) /\ UNCHANGED << pvars, rvars, lvars, hvars >>
  \/ (\E p \in DOMAIN chan : SinkRecv(p)) /\ UNCHANGED << pvars, rvars, lvars, hvars >>
  \/ (\E p \in DOMAIN chan : SinkClose(p)) /\ UNCHANGED << pvars, rvars, lvars, hvars >>
  \/ (CloseEventSink) /\ UNCHANGED << pvars, rvars, lvars, hvars >>

SpecD == InitDispatcher /\ [][NextD]_vars

\* chat
NextChat ==
  \/ (\E p \in MsgPlayers : DispatchPlayerConnect(p)) /\ UNCHANGED << pvars, rvars, lvars, hvars >>
  \/ (\E p \in MsgPlayers, to \in ChatTargets, in_game \in BOOLEAN : DispatchChat(p, to, in_game)) /\ UNCHANGED << pvars, rvars, lvars, hvars >>
  \/ (\E p \in DOMAIN chan : SinkRecv(p)) /\ UNCHANGED << pvars, rvars, lvars, hvars >>
  \/ (\E p \in DOMAIN chan : SinkClose(p)) /\ UNCHANGED << pvars, rvars, lvars, hvars >>

SpecChat == InitDispatcher /\ [][NextChat]_vars

\* the life of the two tasks: start(), ticks and keep-alives, the drop
NextLife ==
  \/ (\E p \in MsgPlayers : DispatchPlayerConnect(p)) /\ UNCHANGED << pvars, rvars, lvars, hvars >>
  \/ (\E p \in MsgPlayers : DispatchKeepAlive(p)) /\ UNCHANGED << pvars, rvars, lvars, hvars >>
  \/ (Start) /\ UNCHANGED << pvars, rvars, lvars, hvars >>
  \/ (DropDispatcher) /\ UNCHANGED << pvars, rvars, lvars, hvars >>
  \/ (CloseMessageChannel) /\ UNCHANGED << pvars, rvars, lvars, hvars >>
  \/ (StateExit) /\ UNCHANGED << pvars, rvars, lvars, hvars >>
  \/ (TickStart) /\ UNCHANGED << pvars, rvars, lvars, hvars >>
  \/ (TickNotStarted) /\ UNCHANGED << pvars, rvars, lvars, hvars >>
  \/ (TickEmit) /\ UNCHANGED << pvars, rvars, lvars, hvars >>
  \/ (TickDropped) /\ UNCHANGED << pvars, rvars, lvars, hvars >>
  \/ (\E p \in DOMAIN chan : SinkRecv(p)) /\ UNCHANGED << pvars, rvars, lvars, hvars >>

SpecLife == InitDispatcher /\ [][NextLife]_vars

\* the players' actions on their way through the two tasks into the ticks
NextAct ==
  \/ (\E p \in SlotPlayers(slots) : DispatchPlayerConnect(p)) /\ UNCHANGED << pvars, rvars, lvars, hvars >>
  \/ (\E p \in MsgPlayers : DispatchOutgoingAction(p)) /\ UNCHANGED << pvars, rvars, lvars, hvars >>
  \/ (Start) /\ UNCHANGED << pvars, rvars, lvars, hvars >>
  \/ (TickStart) /\ UNCHANGED << pvars, rvars, lvars, hvars >>
  \/ (TickAddPlayerAction) /\ UNCHANGED << pvars, rvars, lvars, hvars >>
  \/ (TickEmit) /\ UNCHANGED << pvars, rvars, lvars, hvars >>
  \/ (\E p \in DOMAIN chan : SinkRecv(p)) /\ UNCHANGED << pvars, rvars, lvars, hvars >>

InitAct == InitDispatcher /\ slots = SlotList({})

SpecAct == InitAct /\ [][NextAct]_vars

\* the state task before the game starts: players connect, disconnect and
\* leave, their streams read and close, the event receiver goes away
NextLeave ==
  \/ (\E p \in MsgPlayers : DispatchPlayerConnect(p)) /\ UNCHANGED << pvars, rvars, lvars, hvars >>
  \/ (\E p \in MsgPlayers : DispatchPlayerDisconnect(p)) /\ UNCHANGED << pvars, rvars, lvars, hvars >>
  \/ (\E p \in MsgPlayers, reason \in LeaveReasons : DispatchLeaveReq(p, reason)) /\ UNCHANGED << pvars, rvars, lvars, hvars >>
  \/ (\E p \in DOMAIN chan : SinkRecv(p)) /\ UNCHANGED << pvars, rvars, lvars, hvars >>
  \/ (\E p \in DOMAIN chan : SinkClose(p)) /\ UNCHANGED << pvars, rvars, lvars, hvars >>
  \/ (CloseEventSink) /\ UNCHANGED << pvars, rvars, lvars, hvars >>

SpecLeave == InitAct /\ [][NextLeave]_vars

\* the players whose leaving is counted; player 11 is there to be told
Leavers == { 12, 13 }

\* players connecting, leaving and disconnecting before the start, with the
\* PlayerLeft broadcasts counted
NextLeft ==
  \/ (\E p \in LockPlayers : DispatchPlayerConnect(p) /\ Observed("PlayerConnect", p)) /\ UNCHANGED << pvars, rvars, lvars >>
  \/ (\E p \in Leavers : LeftBelowBound(p) /\ DispatchPlayerDisconnect(p) /\ Observed("PlayerDisconnect", p)) /\ UNCHANGED << pvars, rvars, lvars >>
  \/ (\E p \in Leavers : LeftBelowBound(p) /\ DispatchLeaveReq(p, "LeaveLost") /\ Observed("LeaveReq", p)) /\ UNCHANGED << pvars, rvars, lvars >>
  \/ (\E p \in DOMAIN chan : SinkRecv(p)) /\ UNCHANGED << pvars, rvars, lvars, hvars >>
  \/ (\E p \in DOMAIN chan : SinkClose(p)) /\ UNCHANGED << pvars, rvars, lvars, hvars >>

SpecLeft == InitAct /\ [][NextLeft]_vars

\* one player sending actions faster than the tick task takes them, before and
\* after start(), across the drop and until the inbound channel closes
NextBurst ==
  \/ (BurstOutgoingAction(12)) /\ UNCHANGED << pvars, rvars, lvars, hvars >>
  \/ (ActionSendReady) /\ UNCHANGED << pvars, rvars, lvars, hvars >>
  \/ (Start) /\ UNCHANGED << pvars, rvars, lvars, hvars >>
  \/ (DropDispatcher) /\ UNCHANGED << pvars, rvars, lvars, hvars >>
  \/ (CloseMessageChannel) /\ UNCHANGED << pvars, rvars, lvars, hvars >>
  \/ (StateExit) /\ UNCHANGED << pvars, rvars, lvars, hvars >>
  \/ (TickStart) /\ UNCHANGED << pvars, rvars, lvars, hvars >>
  \/ (TickNotStarted) /\ UNCHANGED << pvars, rvars, lvars, hvars >>
  \/ (TickAddPlayerAction) /\ UNCHANGED << pvars, rvars, lvars, hvars >>
  \/ (TickEmit) /\ UNCHANGED << pvars, rvars, lvars, hvars >>
  \/ (TickDropped) /\ UNCHANGED << pvars, rvars, lvars, hvars >>

SpecBurst == InitAct /\ [][NextBurst]_vars

\* the runtime polls a task that can take a step: each step of the two tasks is
\* taken if it stays possible; start(), the drop and the messages are the
\* environment's and may never come
TaskStep(A) == A /\ UNCHANGED << pvars, rvars, lvars, hvars >>

TasksPolled ==
  /\ WF_vars(TaskStep(ActionSendReady))
  /\ WF_vars(TaskStep(StateExit))
  /\ WF_vars(TaskStep(TickStart))
  /\ WF_vars(TaskStep(TickNotStarted))
  /\ WF_vars(TaskStep(TickAddPlayerAction))
  /\ WF_vars(TaskStep(TickEmit))
  /\ WF_vars(TaskStep(TickDropped))

SpecBurstFair == SpecBurst /\ TasksPolled

\* the two tasks broadcasting under the lock
NextLock ==
  \/ (\E p \in LockPlayers : LockedConnect(p)) /\ UNCHANGED << dvars, pvars, rvars, hvars >>
  \/ (\E t \in Tasks : \E target \in TaskTargets(t) : LockedBroadcast(t, target)) /\ UNCHANGED << dvars, pvars, rvars, hvars >>
  \/ (\E t \in Tasks : PassVisit(t)) /\ UNCHANGED << dvars, pvars, rvars, hvars >>
  \/ (\E t \in Tasks : PassEnd(t)) /\ UNCHANGED << dvars, pvars, rvars, hvars >>
  \/ (\E p \in LockPlayers : SinkTake(p)) /\ UNCHANGED << dvars, pvars, rvars, hvars >>

SpecLock == InitAct /\ [][NextLock]_vars

\* the state task alone: every kind of Message, the Incoming ones from one
\* player of the game and from one that is not in it, two players connecting
MsgSenders == { 12, UnknownPlayerId }
MsgConnecting == { 11, 12, UnknownPlayerId }

NextMsg ==
  \/ (\E p \in MsgConnecting : DispatchPlayerConnect(p)) /\ UNCHANGED << pvars, rvars, lvars, hvars >>
  \/ (\E p \in MsgSenders : DispatchPlayerDisconnect(p)) /\ UNCHANGED << pvars, rvars, lvars, hvars >>
  \/ (\E p \in MsgSenders : DispatchOutgoingAction(p)) /\ UNCHANGED << pvars, rvars, lvars, hvars >>
  \/ (\E p \in MsgSenders, reason \in LeaveReasons : DispatchLeaveReq(p, reason)) /\ UNCHANGED << pvars, rvars, lvars, hvars >>
  \/ (\E p \in MsgSenders, to \in ChatTargets, in_game \in BOOLEAN : DispatchChat(p, to, in_game)) /\ UNCHANGED << pvars, rvars, lvars, hvars >>
  \/ (\E p \in MsgSenders : DispatchKeepAlive(p)) /\ UNCHANGED << pvars, rvars, lvars, hvars >>
  \/ (\E p \in MsgSenders : DispatchOtherW3GS(p)) /\ UNCHANGED << pvars, rvars, lvars, hvars >>
  \/ (\E p \in MsgSenders, status \in ReportedStatuses : DispatchIncomingFlo(p, status)) /\ UNCHANGED << pvars, rvars, lvars, hvars >>

SpecMsg == InitAct /\ [][NextMsg]_vars

\* the replay generator, over every game
NextReplay ==
  \/ (InitializeReplay) /\ UNCHANGED << dvars, pvars, lvars, hvars >>

SpecReplay == InitReplay /\ [][NextReplay]_vars

\* the LAN proxy
NextP ==
  \/ (\E event \in PreGameEvents : DispatchPreGameEvent(event)) /\ UNCHANGED << dvars, rvars, lvars, hvars >>
  \/ (\E status \in NodeGameStatuses : DispatchGameStatusChange(status)) /\ UNCHANGED << dvars, rvars, lvars, hvars >>
  \/ (DropProxy) /\ UNCHANGED << dvars, rvars, lvars, hvars >>
  \/ (Accept) /\ UNCHANGED << dvars, rvars, lvars, hvars >>
  \/ (AcceptError) /\ UNCHANGED << dvars, rvars, lvars, hvars >>
  \/ (ListenerEnded) /\ UNCHANGED << dvars, rvars, lvars, hvars >>
  \/ (ScopeDropped) /\ UNCHANGED << dvars, rvars, lvars, hvars >>
  \/ (CollectorEvent) /\ UNCHANGED << dvars, rvars, lvars, hvars >>
  \/ (CollectorEnded) /\ UNCHANGED << dvars, rvars, lvars, hvars >>
  \/ (CollectorStopped) /\ UNCHANGED << dvars, rvars, lvars, hvars >>
  \/ (LobbySeesStatus) /\ UNCHANGED << dvars, rvars, lvars, hvars >>
  \/ (LobbyLeave) /\ UNCHANGED << dvars, rvars, lvars, hvars >>
  \/ (LobbyError) /\ UNCHANGED << dvars, rvars, lvars, hvars >>
  \/ (\E node_ok \in BOOLEAN : LoadReportLoading(node_ok)) /\ UNCHANGED << dvars, rvars, lvars, hvars >>
  \/ (\E client_ok \in BOOLEAN : LoadReplay(client_ok)) /\ UNCHANGED << dvars, rvars, lvars, hvars >>
  \/ (\E client_ok \in BOOLEAN : LoadGameLoadedSelf(client_ok)) /\ UNCHANGED << dvars, rvars, lvars, hvars >>
  \/ (\E node_ok \in BOOLEAN : LoadReportLoaded(node_ok)) /\ UNCHANGED << dvars, rvars, lvars, hvars >>
  \/ (\E node_ok \in BOOLEAN : LoadLeaveReq(node_ok)) /\ UNCHANGED << dvars, rvars, lvars, hvars >>
  \/ (\E client_ok \in BOOLEAN : LoadLeaveAck(client_ok)) /\ UNCHANGED << dvars, rvars, lvars, hvars >>
  \/ (LoadUnexpectedPacket) /\ UNCHANGED << dvars, rvars, lvars, hvars >>
  \/ (LoadClientClosed) /\ UNCHANGED << dvars, rvars, lvars, hvars >>
  \/ (\E client_ok \in BOOLEAN : LoadEvent(client_ok)) /\ UNCHANGED << dvars, rvars, lvars, hvars >>
  \/ (LoadEventsEnded) /\ UNCHANGED << dvars, rvars, lvars, hvars >>
  \/ (LoadStatus) /\ UNCHANGED << dvars, rvars, lvars, hvars >>
  \/ (LoadStatusClosed) /\ UNCHANGED << dvars, rvars, lvars, hvars >>
  \/ (\E exit \in {"game_ended", "game_error"} : GameReturns(exit)) /\ UNCHANGED << dvars, rvars, lvars, hvars >>
  \/ (SendGameDisconnected) /\ UNCHANGED << dvars, rvars, lvars, hvars >>

SpecP == InitProxy /\ [][NextP]_vars

(***************************************************************************)
(* Properties of the dispatcher.                                           *)
(***************************************************************************)
\* the frames a step handed to any player
FramesSent(last) == UNION { { last.sent[p][i] : i \in DOMAIN last.sent[p] } : p \in DOMAIN last.sent }

IsMuteNotice(frame) == frame.type = "ChatFromHost" /\ frame.message = StartMessage

\* the dispatcher's state but the record of the last step
DispatcherState ==
  << slots, start_tx, start_rx, d_dropped, sent_tick, player_ack_map, game_player_id_lookup,
     chat_banned_player_ids, map, chan, action_ch, tick_stream, tick_pc, state_pc,
     pending_action, rx_open, out_open, n_actions >>

\* C1: after any sequence of Incoming, PlayerConnect and PlayerDisconnect
\* messages and emitted ticks, sent_tick >= player_ack_map[p] for every player p
\* of the game.
AckNeverExceedsSentTick ==
  \A p \in DOMAIN player_ack_map : sent_tick >= player_ack_map[p]

\* C3: a PlayerLeft frame, from a LeaveReq or from a PlayerDisconnect, is never
\* handed to the channel of the player whose slot player id it carries.
LeaverNotRecipient ==
  \A p \in DOMAIN d_last.sent : \A i \in DOMAIN d_last.sent[p] :
    d_last.sent[p][i].type = "PlayerLeft"
      => d_last.sent[p][i].player_id # map[p].slot_player_id

\* a PlayerDisconnect whose PlayerLeft reached another player
PlayerLeftDelivered ==
  /\ \E f \in FramesSent(d_last) : f.type = "PlayerLeft"
  /\ \E p \in DOMAIN map : d_last.events = << PlayerStatusChange(p, "Disconnected", "Node") >>

\* the players a chat of player_id to to_players reaches: the others it names
\* whose channel is there, open and not full
ChatReaches(player_id, to_players, q) ==
  /\ q # player_id
  /\ \E i \in DOMAIN to_players : to_players[i] = map[q].slot_player_id
  /\ map[q].tx
  /\ ~chan[q].closed
  /\ chan[q].len < SinkCap

\* C4: an in-game ChatToHost of a chat-banned player hands no frame to any
\* channel and changes no state of the dispatcher; any other ChatToHost, of a
\* banned player or not, reaches the players it names but the sender.
BannedInGameChatDropped ==
  [][ \A p \in MsgPlayers, to \in ChatTargets, in_game \in BOOLEAN :
        DispatchChat(p, to, in_game) =>
          IF p \in chat_banned_player_ids /\ in_game
          THEN /\ UNCHANGED DispatcherState
               /\ d_last'.sent = NoSent
               /\ d_last'.events = << >>
          ELSE \A q \in DOMAIN map :
                 d_last'.sent[q] =
                   IF ChatReaches(p, to, q)
                   THEN << RewrittenChatFrame([ from_player |-> MsgSlotPlayerId(p),
                                                to_players |-> to, in_game |-> in_game ]) >>
                   ELSE << >> ]_vars

\* a lobby chat of a banned player reached another player
BannedLobbyChatDelivered ==
  \E p \in chat_banned_player_ids : \E f \in FramesSent(d_last) :
    /\ f.type = "ChatFromHost"
    /\ f.from_player = map[p].slot_player_id
    /\ ~f.in_game

\* C5: once PlayerDisconnect{p} is processed, whatever the emit of the
\* Disconnected event gave, p has no channel, and no broadcast hands p a frame
\* until a PlayerConnect{p} is processed.
DisconnectedPlayerGetsNothing ==
  [][ \A p \in SlotPlayers(slots) :
        /\ DispatchPlayerDisconnect(p) => ~map'[p].tx
        /\ ~map[p].tx => /\ d_last'.sent[p] = << >>
                         /\ map'[p].tx => DispatchPlayerConnect(p) ]_vars

\* C6: start() releases the tick task once: the task enters its loop only from
\* its wait and only after a start(), never waits again, hands out no tick and
\* no mute notice before the first start(), hands out the mute notice only as it
\* enters the loop, and a later start() changes nothing.
StartReleasesTickTaskOnce ==
  [][ /\ (tick_pc' = "loop" /\ tick_pc # "loop") => (tick_pc = "wait_start" /\ start_rx = "sent")
      /\ tick_pc # "wait_start" => tick_pc' # "wait_start"
      /\ start_tx' => start_tx
      /\ FramesSent(d_last') # {} => start_rx = "sent"
      /\ (d_last' # d_last /\ \E f \in FramesSent(d_last') : IsMuteNotice(f))
           => (tick_pc = "wait_start" /\ tick_pc' = "loop")
      /\ (Start /\ ~start_tx) => UNCHANGED DispatcherState ]_vars

\* the released tick task handed the mute notice to a player
MuteNoticeDelivered ==
  /\ tick_pc = "loop"
  /\ ~start_tx
  /\ \E f \in FramesSent(d_last) : IsMuteNotice(f)

(***************************************************************************)
(* Properties of the LAN proxy.                                            *)
(***************************************************************************)
Count(seq, x) == Cardinality({ i \in DOMAIN seq : seq[i] = x })

\* the players of the game but the local one
RemotePlayers(i) ==
  { i.slot_info.player_infos[k].player_id : k \in DOMAIN i.slot_info.player_infos }
    \ { i.game.player_id }

\* the PlayerLoaded packets the log has
PlayerLoadedSent(log) ==
  { i \in DOMAIN log : "type" \in DOMAIN log[i] /\ log[i].type = "PlayerLoaded" }

\* the Loaded events of remote players the log has
LoadedReceived(log, my_player_id) ==
  { i \in DOMAIN log : /\ "from" \in DOMAIN log[i]
                        /\ log[i].status = "Loaded"
                        /\ log[i].player_id # my_player_id }

\* C2: in the Load phase a remote player's PlayerLoaded goes to the client at
\* most once, over the replay of the initial map and the Loaded events; the
\* local player's goes only in answer to a GameLoadedSelf, never by that path.
PlayerLoadedAtMostOnce ==
  /\ \A r \in RemotePlayers(game_info) :
       Count(p_log, GetPlayerLoadedPacket(game_info, r)) <= 1
  /\ Count(p_log, PlayerLoadedPacket(game_info.slot_info.slot_player_id)) <= n_self_loaded
  /\ \A k \in DOMAIN loaded_sent : loaded_sent[k] # game_info.game.player_id

\* player 22, replayed as Loaded from the initial map, was reported Loaded again
\* by an event in the Load phase
LoadedTwiceSentOnce ==
  /\ p_pc = "load"
  /\ slot_status_map[22] = "Loaded"
  /\ \E i \in DOMAIN p_log : p_log[i] = Received(PreGameEvent(22, "Loaded"))
  /\ Count(p_log, GetPlayerLoadedPacket(game_info, 22)) = 1

\* C7: on every return of serve the task sends GameDisconnected, once, and it is
\* the only event the task sends: none before serve has returned, the send is
\* ready once it has, and then the one event is all there is.
OneGameDisconnected ==
  /\ p_pc \notin {"exited", "done"} => lan_events = << >> /\ p_exit = NotReturned
  /\ p_pc = "exited" => lan_events = << >> /\ ENABLED SendGameDisconnected
  /\ p_pc = "done" => lan_events = << "GameDisconnected" >>

\* serve returned an error from the Load phase and the event was sent
DisconnectedAfterError ==
  /\ p_pc = "done"
  /\ p_exit.exit = "unexpected_node_game_status"
  /\ lan_events = << "GameDisconnected" >>

\* C8: a Leave of the lobby handler takes serve back to accepting: the phase
\* stays Lobby, serve does not return and no GameDisconnected is sent.
LeaveReturnsToAccepting ==
  [][ (p_pc = "lobby" /\ lobby_action' = "Leave")
        => (p_pc' = "accept" /\ p_exit' = NotReturned /\ lan_events' = << >>) ]_vars

\* two connections were accepted, the first left, the second started the game
StartAfterLeave ==
  /\ n_accepted = 2
  /\ lobby_action = "Start"
  /\ p_pc = "load"
  /\ lan_events = << >>

\* C9: in the Load phase the node status Running ends handle_load_screen with Ok
\* and serve enters the game loop, GameLoadedSelf received or not; if the initial
\* map has no Loaded remote player and no Loaded event and no GameLoadedSelf came,
\* no PlayerLoaded has gone to the client by then.
RunningEntersGame ==
  [][ (p_pc = "load" /\ ~status_seen /\ game_status = "Running" /\ status_seen')
        => /\ p_pc' = "game"
           /\ p_exit' = NotReturned
           /\ p_log' = p_log
           /\ ( /\ \A r \in DOMAIN slot_status_map :
                     r # game_info.game.player_id => slot_status_map[r] # "Loaded"
                /\ LoadedReceived(p_log, game_info.game.player_id) = {}
                /\ n_self_loaded = 0 )
                => PlayerLoadedSent(p_log') = {} ]_vars

\* Running came to a Load phase in which nobody had loaded: serve is in the game
\* loop and the log has the report of Loading alone
RunningBeforeAnyoneLoaded ==
  /\ p_pc = "game"
  /\ ~p_dropped
  /\ game_status = "Running"
  /\ status_seen
  /\ n_self_loaded = 0
  /\ p_log = << Report("Loading") >>

\* C10: the replay at the entry of handle_load_screen sends the client one
\* PlayerLoaded, with the slot player id, for every player of the initial map
\* that is Loaded and not the local player, and none for any other player.
ReplaySendsLoadedRemotes ==
  [][ (p_pc \in {"load_report", "load_replay"} /\ p_pc' = "load")
        => LET replay == SubSeq(p_log', 2, Len(p_log'))
               loaded == { r \in DOMAIN slot_status_map :
                             /\ slot_status_map[r] = "Loaded"
                             /\ r # game_info.game.player_id }
           IN /\ p_log'[1] = Report("Loading")
              /\ Len(replay) = Cardinality(loaded)
              /\ \A r \in loaded : Count(replay, GetPlayerLoadedPacket(game_info, r)) = 1 ]_vars

\* the initial map had all three players Loaded: the replay sent the two remote
\* players' packets
ReplayOfTwo ==
  /\ p_pc = "load"
  /\ \A r \in {21, 22, 23} : slot_status_map[r] = "Loaded"
  /\ Len(p_log) = 3
  /\ Count(p_log, PlayerLoadedPacket(1)) = 1
  /\ Count(p_log, PlayerLoadedPacket(4)) = 1

(***************************************************************************)
(* Properties of the dispatcher, continued.                                *)
(***************************************************************************)
\* player q's channel is there, open and has room: a frame sent to q arrives
Reachable(q) == map[q].tx /\ ~chan[q].closed /\ chan[q].len < SinkCap

\* C11: a LeaveReq of a player p of the game hands LeaveAck to p alone, as the
\* one and last frame p gets, drops p's sender, hands one PlayerLeft with p's
\* slot player id and the request's reason to every other connected player and
\* none to p, and emits one PlayerStatusChange(p, Left, Node); a frame arrives
\* where the channel is there, open and has room, the event where the event
\* channel has a receiver.
LeaveReqAcksAndBroadcasts ==
  [][ d_last'.op = "LeaveReq" =>
      \A p \in SlotPlayers(slots), reason \in LeaveReasons :
        DispatchLeaveReq(p, reason) =>
          /\ d_last'.sent[p] = IF Reachable(p) THEN << LeaveAckFrame >> ELSE << >>
          /\ ~map'[p].tx
          /\ \A q \in DOMAIN map \ {p} :
               d_last'.sent[q] = IF Reachable(q)
                                 THEN << PlayerLeftFrame(map[p].slot_player_id, reason) >>
                                 ELSE << >>
          /\ d_last'.events = IF out_open
                              THEN << PlayerStatusChange(p, "Left", "Node") >>
                              ELSE << >> ]_vars

\* all three connected, player 12 left: LeaveAck to 12, PlayerLeft to 11 and 13,
\* one event
LeaveBroadcast ==
  /\ d_last.op = "LeaveReq"
  /\ d_last.sent[12] = << LeaveAckFrame >>
  /\ d_last.sent[11] = << PlayerLeftFrame(2, "LeaveLost") >>
  /\ d_last.sent[13] = << PlayerLeftFrame(2, "LeaveLost") >>
  /\ d_last.events = << PlayerStatusChange(12, "Left", "Node") >>
  /\ ~map[12].tx /\ map[11].tx /\ map[13].tx

\* C12: with a chat-banned player in the slot list, the tick task released by
\* start() hands every player connected at that moment exactly one ChatFromHost
\* with the mute text, addressed to the player's own slot player id, and hands
\* it out as it enters its loop, so before every IncomingAction, which only the
\* loop hands out; with no chat-banned player no such frame is ever handed out.
MuteNoticeToEveryConnectedPlayer ==
  [][ /\ (TickStart /\ chat_banned_player_ids # {}) =>
           \A p \in DOMAIN map :
             d_last'.sent[p] = IF Reachable(p)
                               THEN << PrivateToSelfFrame(map[p].slot_player_id, StartMessage) >>
                               ELSE << >>
      /\ \A f \in FramesSent(d_last') :
           /\ (d_last' # d_last /\ IsMuteNotice(f)) => (tick_pc = "wait_start" /\ tick_pc' = "loop")
           /\ (d_last' # d_last /\ f.type = "IncomingAction") => tick_pc = "loop"
      /\ tick_pc = "loop" => tick_pc' # "wait_start"
      /\ chat_banned_player_ids = {} => \A f \in FramesSent(d_last') : ~IsMuteNotice(f) ]_vars

\* player 12 banned, all three connected at the start: one notice each, to
\* slot player ids 1, 2 and 4
MuteNoticeToAllThree ==
  /\ d_last.op = "start"
  /\ chat_banned_player_ids = {12}
  /\ d_last.sent[11] = << PrivateToSelfFrame(1, StartMessage) >>
  /\ d_last.sent[12] = << PrivateToSelfFrame(2, StartMessage) >>
  /\ d_last.sent[13] = << PrivateToSelfFrame(4, StartMessage) >>

\* the actions the state task has handed over that no tick has carried yet, in
\* the order of their arrival
InFlight ==
  tick_stream \o action_ch \o (IF state_pc = "send_wait" THEN << pending_action >> ELSE << >>)

\* C13: while the tick task lives, every PlayerAction the state task hands over
\* joins the end of the actions in flight, the tick task takes them over in
\* that order, and each tick carries, in that order, exactly the actions the
\* tick task took over since the tick before, with time_increment_ms the
\* configured step; no other step touches the actions in flight, so none is
\* lost, none is carried twice.
ActionsTickedOnceInArrivalOrder ==
  [][ tick_pc' # "exited" =>
        /\ \A p \in MsgPlayers :
             DispatchOutgoingAction(p) =>
               InFlight' = Append(InFlight, [ player_id |-> MsgSlotPlayerId(p),
                                              data |-> n_actions + 1 ])
        /\ TickAddPlayerAction =>
             /\ InFlight' = InFlight
             /\ tick_stream' = Append(tick_stream, Head(action_ch))
        /\ TickEmit =>
             /\ \A q \in DOMAIN map :
                  d_last'.sent[q] =
                    IF Reachable(q)
                    THEN << [ type |-> "IncomingAction",
                              time_increment_ms |-> GAME_DEFAULT_STEP_MS,
                              actions |-> tick_stream ] >>
                    ELSE << >>
             /\ tick_stream \o InFlight' = InFlight
        /\ (~TickEmit /\ ~\E p \in MsgPlayers : DispatchOutgoingAction(p)) =>
             InFlight' = InFlight
        /\ \A i \in DOMAIN InFlight' :
             InFlight'[i].data = n_actions' - Len(InFlight') + i ]_vars

\* actions of the players with slot player ids 4 and 1 taken over within one
\* interval: the tick to player 11 carries the two in this order
TickOfTwo ==
  /\ d_last.op = "tick"
  /\ d_last.sent[11] # << >>
  /\ d_last.sent[11][1].actions = << [ player_id |-> 4, data |-> 1 ],
                                      [ player_id |-> 1, data |-> 2 ] >>

\* C14: for every slot of the list the dispatcher was built from, the lookup
\* maps the slot's index + 1 to the slot's player id and to nothing else, the
\* player's slot_player_id is the slot's index + 1 and not 0, and no message
\* changes either mapping.
SlotPlayerIdsFixed ==
  [][ /\ \A i \in DOMAIN slots :
           /\ slots[i].id + 1 \in DOMAIN game_player_id_lookup'
           /\ game_player_id_lookup'[slots[i].id + 1] = slots[i].player_id
           /\ map'[slots[i].player_id].slot_player_id = slots[i].id + 1
           /\ map'[slots[i].player_id].slot_player_id # 0
      /\ DOMAIN game_player_id_lookup' = { slots[i].id + 1 : i \in DOMAIN slots }
      /\ game_player_id_lookup' = game_player_id_lookup
      /\ slots' = slots
      /\ DOMAIN map' = DOMAIN map
      /\ \A p \in DOMAIN map : map'[p].slot_player_id = map[p].slot_player_id ]_vars

\* player 12 of slot 1 left after it had connected: it is still 2 -> 12
LookupKeptAfterLeave ==
  /\ d_last.op = "LeaveReq"
  /\ d_last.result = "Ok"
  /\ d_last.sent[12] = << LeaveAckFrame >>
  /\ game_player_id_lookup[2] = 12
  /\ map[12].slot_player_id = 2

\* C15: no counter of player_ack_map ever decreases; an OutgoingKeepAlive from
\* a player of the game adds exactly 1 to that player's counter and changes no
\* other counter, no sender and no channel, and hands out no frame; one from
\* anybody else and every other message change no counter.
KeepAliveCountsOnce ==
  [][ /\ DOMAIN player_ack_map' = DOMAIN player_ack_map
      /\ \A p \in DOMAIN player_ack_map : player_ack_map'[p] >= player_ack_map[p]
      /\ \A p \in MsgPlayers :
           DispatchKeepAlive(p) =>
             /\ \A q \in DOMAIN player_ack_map :
                  player_ack_map'[q] = player_ack_map[q] + (IF q = p THEN 1 ELSE 0)
             /\ map' = map
             /\ chan' = chan
             /\ d_last'.sent = NoSent
      /\ (~\E p \in MsgPlayers : DispatchKeepAlive(p)) => player_ack_map' = player_ack_map ]_vars

\* the second keep-alive of player 12, connected, neither of anybody else
SecondKeepAlive ==
  /\ d_last.op = "OutgoingKeepAlive"
  /\ player_ack_map = [ p \in SlotPlayers(slots) |-> IF p = 12 THEN 2 ELSE 0 ]
  /\ map[12].tx

(***************************************************************************)
(* Properties of the replay generator.                                     *)
(***************************************************************************)
SlotInfoOf(recs) == recs[CHOOSE n \in DOMAIN recs : recs[n].type = "SlotInfo"]

FloObSlotOccupied == SlotAt(r_game, FLO_OB_SLOT).status = "Occupied"

\* slot 23 of the SlotInfo among the records is the FLO observer's
FloObSlotAssignedToFlo ==
  /\ Cardinality({ n \in DOMAIN records : records[n].type = "SlotInfo" }) = 1
  /\ SlotInfoOf(records).slots[FLO_OB_SLOT].player_id = 24
  /\ SlotInfoOf(records).slots[FLO_OB_SLOT].team = 24
  /\ SlotInfoOf(records).slots[FLO_OB_SLOT].slot_status = "Occupied"

\* C16 as stated: with slot 23 occupied, initialize_replay fails with
\* FloObserverSlotOccupied and produces no record; otherwise slot 23 of the
\* emitted SlotInfo is the FLO observer's, player id 24, team 24.
OccupiedFloObSlotIsTheError ==
  r_pc # "init" =>
    IF FloObSlotOccupied
    THEN r_pc = "failed" /\ r_err = "FloObserverSlotOccupied" /\ records = << >>
    ELSE r_pc = "records" => FloObSlotAssignedToFlo

\* C16: with slot 23 occupied, initialize_replay fails and produces no record,
\* with FloObserverSlotOccupied if an occupied slot holds a player and with
\* GameHasNoPlayer, raised before, if none does; otherwise, if it succeeds,
\* slot 23 of the emitted SlotInfo is the FLO observer's, player id 24, team 24.
OccupiedFloObSlotFails ==
  r_pc # "init" =>
    IF FloObSlotOccupied
    THEN /\ r_pc = "failed"
         /\ records = << >>
         /\ r_err = IF \E i \in OccupiedSlots(r_game) : SlotAt(r_game, i).player
                    THEN "FloObserverSlotOccupied"
                    ELSE "GameHasNoPlayer"
    ELSE /\ r_pc = "records" => FloObSlotAssignedToFlo
         /\ r_pc = "failed" => r_err = "GameHasNoPlayer" /\ records = << >>

\* a computer in slot 23 of a game with a player in slot 0: refused
ComputerInFloObSlot ==
  /\ r_pc = "failed"
  /\ r_err = "FloObserverSlotOccupied"
  /\ r_game = ObserverGameInfo("Player", "Open", "Open", "Computer")

(***************************************************************************)
(* Properties of the LAN proxy, continued.                                 *)
(***************************************************************************)
\* C17: a LeaveReq of the client in the Load phase makes the proxy report
\* Connected to the node, a failure ignored, then send LeaveAck to the client,
\* and with that the supervisor is back in the Lobby phase, accepting, and not
\* in the game.
LeaveInLoadReturnsToLobby ==
  [][ /\ \A node_ok \in BOOLEAN :
           LoadLeaveReq(node_ok) =>
             /\ p_pc' = "load_leave"
             /\ p_log' = IF node_ok THEN Append(p_log, Report("Connected")) ELSE p_log
      /\ LoadLeaveAck(TRUE) =>
           /\ p_log' = Append(p_log, LeaveAckPacket)
           /\ p_pc' = "accept"
           /\ p_pc' # "game" ]_vars

\* C18: in the Load phase a node game status that is neither Loading nor
\* Running (Created, Waiting, Ended) ends the handler and the supervisor with
\* UnexpectedNodeGameStatus carrying that status; after it the supervisor is
\* never in the game and what it emits is one GameDisconnected; Loading, or
\* an empty value, leaves the Load phase running.
UnexpectedStatusEndsLoad ==
  [][ /\ (LoadStatus /\ game_status \notin {"None", "Loading", "Running"}) =>
           /\ game_status \in {"Created", "Waiting", "Ended"}
           /\ p_pc' = "exited"
           /\ p_exit' = UnexpectedNodeGameStatus(game_status)
      /\ p_exit.exit = "unexpected_node_game_status" =>
           /\ p_exit' = p_exit
           /\ p_pc \in {"exited", "done"} /\ p_pc' \in {"exited", "done"}
           /\ p_pc = "exited" => lan_events = << >>
           /\ p_pc' = "done" => lan_events' = << "GameDisconnected" >>
      /\ (LoadStatus /\ game_status \in {"None", "Loading"}) =>
           /\ p_pc' = "load"
           /\ UNCHANGED << p_exit, p_log, loaded_sent, lan_events >> ]_vars

\* the node said Waiting during the load screen: serve returned with the error
\* carrying Waiting and GameDisconnected went out
WaitingDuringLoad ==
  /\ p_exit = UnexpectedNodeGameStatus("Waiting")
  /\ p_pc = "done"
  /\ lan_events = << "GameDisconnected" >>
  /\ p_log # << >>

\* C19: what the Load phase tells the node is ordered: Loading is reported
\* once, at entry, before anything goes to the client; a GameLoadedSelf of the
\* client is answered with one PlayerLoaded carrying the local slot player id
\* and only then, next, Loaded is reported; Loaded is reported no more often
\* than GameLoadedSelf came in, and only right after that answer.
LoadReportsOrdered ==
  [][ LET my_slot_player_id == game_info.slot_info.slot_player_id
      IN /\ (p_log' # p_log \/ n_self_loaded' # n_self_loaded) =>
              /\ p_log' # << >> => p_log'[1] = Report("Loading")
              /\ Count(p_log', Report("Loading")) <= 1
              /\ \A i \in DOMAIN p_log' :
                   p_log'[i] = Report("Loaded") =>
                     i > 1 /\ p_log'[i - 1] = PlayerLoadedPacket(my_slot_player_id)
              /\ Count(p_log', Report("Loaded")) <= n_self_loaded'
         /\ LoadGameLoadedSelf(TRUE) =>
              /\ p_log' = Append(p_log, PlayerLoadedPacket(my_slot_player_id))
              /\ p_pc' = "load_self"
         /\ p_pc = "load_self" =>
              \/ p_log' = p_log /\ p_pc' \in {"load_self", "exited"}
              \/ p_log' = Append(p_log, Report("Loaded")) /\ p_pc' = "load" ]_vars

\* Loading reported, a remote player's PlayerLoaded passed on, then the local
\* client loaded: its PlayerLoaded and the report of Loaded end the log
LoadedReportedAfterAnswer ==
  /\ Len(p_log) >= 4
  /\ p_log[1] = Report("Loading")
  /\ \E i \in DOMAIN p_log : p_log[i] = PlayerLoadedPacket(1)
  /\ p_log[Len(p_log) - 1] = PlayerLoadedPacket(2)
  /\ p_log[Len(p_log)] = Report("Loaded")
  /\ p_pc = "load"

\* C20: no pre-game event is lost or applied twice from the Lobby to the Load
\* phase: a dispatched event joins the end of the receiver's queue; the
\* collector takes the queue's head and sets the map's entry of that player to
\* that status, all other entries kept; the stop hands map and queue to the
\* Load handler as they are; the Load handler takes the head of the queue and
\* never changes the map; nothing else touches map or queue while serve runs.
PreGameEventsHandedOver ==
  [][ /\ event_ch' # event_ch =>
           \/ /\ \E event \in PreGameEvents : event_ch' = Append(event_ch, event)
              /\ slot_status_map' = slot_status_map
           \/ /\ CollectorPolled
              /\ event_ch' = Tail(event_ch)
              /\ DOMAIN slot_status_map' = DOMAIN slot_status_map \cup { Head(event_ch).player_id }
              /\ \A q \in DOMAIN slot_status_map' :
                   slot_status_map'[q] = IF q = Head(event_ch).player_id
                                         THEN Head(event_ch).status
                                         ELSE slot_status_map[q]
           \/ /\ p_pc = "load"
              /\ event_ch' = Tail(event_ch)
              /\ slot_status_map' = slot_status_map
              /\ Len(p_log') > Len(p_log)
              /\ p_log'[Len(p_log) + 1] = Received(Head(event_ch))
           \/ /\ p_pc' \in {"exited", "game"}
              /\ event_ch' = << >>
      /\ slot_status_map' # slot_status_map => (CollectorPolled /\ event_ch' # event_ch)
      /\ CollectorStopped =>
           /\ p_pc' = "load_report"
           /\ UNCHANGED << slot_status_map, event_ch >> ]_vars

\* player 22 loaded, then left: the first event was folded into the map before
\* the stop, the second went over in the receiver and the Load handler got it
FoldedThenReceived ==
  /\ p_pc = "load"
  /\ slot_status_map[22] = "Loaded"
  /\ game_info = LanGameInfo("Joined", "Joined")
  /\ \E i \in DOMAIN p_log : p_log[i] = Received(PreGameEvent(22, "Left"))
  /\ event_ch = << >>

\* C21: in the Lobby phase an accept that fails, and a lobby handler that
\* returns an error, both leave serve running: the supervisor is accepting
\* again, has not returned and has sent no GameDisconnected.
LobbyErrorsReturnToAccept ==
  [][ (p_pc \in {"accept", "lobby"} /\ (AcceptError \/ LobbyError))
        => (p_pc' = "accept" /\ p_exit' = NotReturned /\ lan_events' = << >>) ]_vars

\* C22: a PlayerConnect of a player p of the game leaves p with one sender, on
\* a fresh channel, whatever p had before (a sender or none, its channel open,
\* holding frames or closed), touches no other player's sender or channel,
\* hands no frame to anyone and emits PlayerStatusChange(p, Connected, Node),
\* the event where the event channel has a receiver; for a player id that is
\* not in the game it fails with PlayerNotFoundInGame, changes no sender and
\* emits nothing.  Every player of the map has one sender slot and one channel.
ConnectReplacesSink ==
  [][ /\ d_last'.op = "PlayerConnect" =>
           \A p \in MsgPlayers :
             DispatchPlayerConnect(p) =>
               IF p \in DOMAIN map
               THEN /\ map'[p].tx
                    /\ chan'[p] = NewChannel
                    /\ \A q \in DOMAIN map \ {p} : map'[q] = map[q] /\ chan'[q] = chan[q]
                    /\ d_last'.sent = NoSent
                    /\ d_last'.events = IF out_open
                                        THEN << PlayerStatusChange(p, "Connected", "Node") >>
                                        ELSE << >>
               ELSE /\ d_last'.result = "PlayerNotFoundInGame"
                    /\ d_last'.events = << >>
                    /\ d_last'.sent = NoSent
                    /\ UNCHANGED << map, chan >>
      /\ DOMAIN chan' = DOMAIN map'
      /\ \A p \in DOMAIN map' : map'[p].tx \in BOOLEAN ]_vars

\* player 12 connected while player 11's channel was full of PlayerLeft frames
\* and player 13's was closed: 12 has a sender on a fresh channel, 11 and 13 are
\* as they were
ConnectedBesideFullSink ==
  /\ d_last.op = "PlayerConnect"
  /\ d_last.events = << PlayerStatusChange(12, "Connected", "Node") >>
  /\ map[12].tx /\ chan[12] = NewChannel
  /\ map[11].tx /\ chan[11].len = SinkCap
  /\ map[13].tx /\ chan[13].closed

\* the PlayerLeft a PlayerDisconnect of p hands to player q
DisconnectLeft(p) == PlayerLeftFrame(MsgSlotPlayerId(p), "LeaveDisconnect")

\* player p has a sender when the message is taken
HadSink(p) == p \in DOMAIN map /\ map[p].tx

\* C23: a PlayerDisconnect of p emits PlayerStatusChange(p,
\* Disconnected, Node) (the event where the event channel has a receiver), and
\* one PlayerLeft{slot_player_id, LeaveDisconnect} is handed to every other
\* connected player whose channel takes it if and only if p had a sender.
DisconnectBroadcastsIffSink ==
  [][ d_last'.op = "PlayerDisconnect" =>
        \A p \in MsgPlayers :
          DispatchPlayerDisconnect(p) =>
            /\ d_last'.events = EmitEvents(PlayerStatusChange(p, "Disconnected", "Node"))
            /\ \A q \in DOMAIN map \ {p} :
                 d_last'.sent[q] = IF HadSink(p) /\ Reachable(q)
                                   THEN << DisconnectLeft(p) >>
                                   ELSE << >> ]_vars

\* targets of each kind a broadcast can be given: everyone, one player or all
\* but one allowed, one player or all but one denied
BroadcastTargets ==
  { Everyone } \cup { AllowList({p}) : p \in DOMAIN map }
               \cup { DenyList({p}) : p \in DOMAIN map }
               \cup { AllowList(DOMAIN map \ {12}), DenyList(DOMAIN map \ {12}) }

\* the sender of q is there and its channel closed or at capacity
SinkFails(q) == map[q].tx /\ (chan[q].closed \/ chan[q].len >= SinkCap)

\* what one pass of broadcast does to player q, a recipient (hit) or not: the
\* frame goes to a channel that takes it, a sender found closed or full is
\* cleared and its channel left as it is, anyone else is left alone
RecipientOutcome(q, frame, hit, m, c, sent) ==
  IF hit /\ Reachable(q)
  THEN /\ sent[q] = << frame >>
       /\ m[q] = map[q]
       /\ c[q] = [ chan[q] EXCEPT !.len = @ + 1 ]
  ELSE IF hit /\ SinkFails(q)
  THEN /\ sent[q] = << >>
       /\ m[q] = [ map[q] EXCEPT !.tx = FALSE ]
       /\ c[q] = chan[q]
  ELSE /\ sent[q] = << >>
       /\ m[q] = map[q]
       /\ c[q] = chan[q]

\* C24: a broadcast gives no error and no event of its own and does not wait:
\* for every target it hands the frame to each matching connected player whose
\* channel takes it, clears the sender of each matching player whose channel is
\* closed or full, and leaves everyone else alone, each player's outcome being
\* independent of the others'; the PlayerDisconnect and LeaveReq steps that
\* broadcast end Ok (Cancelled only for the event of the LeaveReq), with the
\* handler's one event and the state task receiving again.
BroadcastClearsFailedSinks ==
  [][ /\ \A target \in BroadcastTargets :
           LET frame == PlayerLeftFrame(1, "LeaveLost")
               b == Broadcast(map, chan, frame, target)
           IN /\ DOMAIN b = {"map", "chan", "sent"}
              /\ \A q \in DOMAIN map :
                   RecipientOutcome(q, frame, TargetContains(target, q), b.map, b.chan, b.sent)
      /\ d_last'.op = "PlayerDisconnect" =>
           \A p \in SlotPlayers(slots) :
             (out_open /\ map[p].tx /\ DispatchPlayerDisconnect(p)) =>
               /\ d_last'.result = "Ok"
               /\ d_last'.events = << PlayerStatusChange(p, "Disconnected", "Node") >>
               /\ state_pc' = "recv"
               /\ \A q \in DOMAIN map \ {p} :
                    RecipientOutcome(q, DisconnectLeft(p), TRUE, map', chan', d_last'.sent)
      /\ d_last'.op = "LeaveReq" =>
           \A p \in SlotPlayers(slots), reason \in LeaveReasons :
             DispatchLeaveReq(p, reason) =>
               /\ d_last'.result = EmitResult
               /\ Len(d_last'.events) <= 1
               /\ state_pc' = "recv"
               /\ \A q \in DOMAIN map \ {p} :
                    RecipientOutcome(q, PlayerLeftFrame(map[p].slot_player_id, reason), TRUE,
                                     map', chan', d_last'.sent) ]_vars

\* player 12's PlayerDisconnect found player 13's channel full and player 11's
\* with room: 11 got the PlayerLeft, 13 lost its sender and keeps its full channel
OneClearedOneServed ==
  /\ d_last.op = "PlayerDisconnect"
  /\ d_last.result = "Ok"
  /\ d_last.events = << PlayerStatusChange(12, "Disconnected", "Node") >>
  /\ d_last.sent[11] = << PlayerLeftFrame(2, "LeaveDisconnect") >>
  /\ d_last.sent[13] = << >>
  /\ map[11].tx
  /\ ~map[13].tx /\ chan[13] = [ len |-> SinkCap, closed |-> FALSE ]

(***************************************************************************)
(* Properties of the lock.                                                 *)
(***************************************************************************)
\* a sequence of frames is in the order of the calls
InCallOrder(frames) ==
  \A i, j \in DOMAIN frames : i < j => frames[i].call < frames[j].call

\* C25: with both tasks broadcasting under the lock, the frame a sink's
\* receiver took last and the frames in its channel are in the order the
\* broadcast calls were made; at most one pass is running, and it is the lock
\* holder's; a pass visits the players in ascending player-id order.
BroadcastsInCallOrder ==
  /\ \A p \in LockPlayers : InCallOrder(<< sinks[p].got >> \o sinks[p].queue)
  /\ \A t \in Tasks : pass[t].pc = "pass" <=> lock = t
  /\ \A t \in Tasks : \A i, j \in DOMAIN pass[t].visited :
       i < j => pass[t].visited[i] < pass[t].visited[j]

\* player 13's receiver took the state task's first broadcast and has the tick
\* task's second and the state task's third in its channel; player 11, not a
\* target of the third, has the second alone; the passes are over
FramesOfBothTasks ==
  /\ lock = "free"
  /\ sinks[13].got = CallFrame(1, "state")
  /\ sinks[13].queue = << CallFrame(2, "tick"), CallFrame(3, "state") >>
  /\ sinks[11].queue = << CallFrame(2, "tick") >>

(***************************************************************************)
(* Properties of the dispatcher: the action channel.                       *)
(***************************************************************************)
\* C26: an OutgoingAction of a player is put on the channel to the tick task as
\* PlayerAction{player_id = the message's slot_player_id, data}, with no frame
\* and no event; when the channel is full or closed the dispatch fails with
\* Cancelled and the state task is receiving again, it does not wait.
OutgoingActionNeverWaits ==
  [][ (state_pc = "recv" /\ d_last'.op = "OutgoingAction") =>
        /\ d_last'.sent = NoSent
        /\ d_last'.events = << >>
        /\ state_pc' = "recv"
        /\ IF tick_pc = "exited" \/ Len(action_ch) >= ActionChannelCap
           THEN /\ d_last'.result = "Cancelled"
                /\ action_ch' = action_ch
           ELSE /\ d_last'.result = "Ok"
                /\ action_ch' = Append(action_ch, [ player_id |-> MsgSlotPlayerId(12),
                                                    data |-> n_actions + 1 ]) ]_vars

(***************************************************************************)
(* Properties of the dispatcher: chat.                                     *)
(***************************************************************************)
\* the players the target slot player ids of a chat translate to
ChatTranslated(to_players) ==
  { game_player_id_lookup[to_players[i]] :
      i \in { j \in DOMAIN to_players : to_players[j] \in DOMAIN game_player_id_lookup } }

\* C27: a ChatToHost that is not dropped is handed, as ChatFromHost with the
\* sender's slot player id and the targets it came with, to the players the
\* target slot player ids translate to but the sender, each getting it once
\* where it is connected and its channel takes it; the sender, the players not
\* named and the players of no named slot get nothing, and no event is emitted.
ChatToTranslatedTargetsOnly ==
  [][ d_last'.op = "ChatToHost" =>
        \A p \in MsgPlayers, to \in ChatTargets, in_game \in BOOLEAN :
          (DispatchChat(p, to, in_game) /\ ~(p \in chat_banned_player_ids /\ in_game)) =>
            LET frame == [ type |-> "ChatFromHost", from_player |-> MsgSlotPlayerId(p),
                           to_players |-> to, in_game |-> in_game, message |-> "chat" ]
            IN /\ d_last'.events = << >>
               /\ d_last'.result = "Ok"
               /\ \A q \in DOMAIN map :
                    d_last'.sent[q] =
                      IF q \in ChatTranslated(to) /\ q # p /\ Reachable(q)
                      THEN << frame >>
                      ELSE << >>
               /\ p \in DOMAIN map => (d_last'.sent[p] = << >> /\ chan'[p] = chan[p]) ]_vars

\* player 12 sent a chat to the slot player ids 1, 2 and 4 with everyone
\* connected and room in every channel: 11 and 13 got it, 12 did not
ChatNotEchoed ==
  /\ d_last.op = "ChatToHost"
  /\ d_last.sent[12] = << >>
  /\ map[12].tx /\ chan[12] = NewChannel
  /\ Len(d_last.sent[11]) = 1 /\ d_last.sent[11] = d_last.sent[13]
  /\ d_last.sent[11][1].type = "ChatFromHost"
  /\ d_last.sent[11][1].from_player = 2
  /\ d_last.sent[11][1].to_players = << 1, 2, 4 >>

\* C28: a dispatch that fails for its message alone (unknown player, closed
\* event sink) leaves the state task receiving; a dispatch that fails because
\* the channel to the tick task is closed makes the state task exit; and once
\* the state task has exited, the tick task's next step is its exit, not a tick.
StateTaskExitStopsTicks ==
  [][ /\ ( \/ d_last'.result = "PlayerNotFoundInGame"
           \/ d_last'.result = "Cancelled" /\ d_last'.op # "OutgoingAction" )
           => state_pc' = "recv"
      /\ (d_last'.op = "OutgoingAction" /\ d_last'.result = "Cancelled")
           => state_pc' = "exited"
      /\ (state_pc = "exited" /\ tick_pc = "loop" /\ tick_pc' = "loop")
           => (d_last'.op # "tick" /\ UNCHANGED << action_ch, tick_stream >>) ]_vars

\* C29: once the Dispatcher is dropped, the tick task's next step is its exit,
\* started or not; the state task begins no further dispatch (a dispatch that
\* waits on the action channel ends, and the task's next step is its exit);
\* and with both tasks exited no tick and no frame is handed to any player.
DropEndsBothTasks ==
  [][ /\ (d_dropped /\ tick_pc' # tick_pc) => tick_pc' = "exited"
      /\ (d_dropped /\ tick_pc = "loop")
           => (Len(action_ch') >= Len(action_ch) /\ (d_last' # d_last => d_last'.op # "tick"))
      /\ (d_dropped /\ state_pc = "recv") => n_actions' = n_actions
      /\ (d_dropped /\ state_pc = "send_wait" /\ state_pc' # state_pc) => state_pc' = "recv"
      /\ (state_pc = "exited" /\ tick_pc = "exited")
           => (d_last' = NoLast /\ UNCHANGED << map, chan, sent_tick >>) ]_vars


\* C30: the supervisor comes to the game loop only by the step of the Load
\* handler that takes the node game status Running from the status channel; a
\* LeaveReq of the client, or the end of the pre-game events, does not lead there.
InGameOnlyAfterRunning ==
  [][ (p_pc # "game" /\ p_pc' = "game")
        => (p_pc = "load" /\ ~status_seen /\ status_seen' /\ game_status = "Running") ]_vars


(***************************************************************************)
(* Properties of the dispatcher: the announcements of a player's leaving.  *)
(***************************************************************************)
\* C31: between a PlayerConnect of p and its next, whatever LeaveReq and
\* PlayerDisconnect messages about p arrive, at most one broadcast hands the
\* players a PlayerLeft with p's slot player id.
AtMostOnePlayerLeft ==
  \A p \in DOMAIN n_left : n_left[p] <= 1


\* C32: before start() is called, with the Dispatcher alive, a dispatch of an
\* OutgoingAction that waits on the action channel comes to its end, so that
\* the state task receives the messages that follow.
StateTaskProgressBeforeStart ==
  (state_pc = "send_wait" /\ start_rx = "pending")
    ~> (state_pc # "send_wait" \/ start_rx # "pending")


\* the players that still have a sink after the step were handed, by the step,
\* a PlayerLeft with p's slot player id
ToldOfLeaving(p) ==
  \A q \in DOMAIN map \ { p } : map'[q].tx => q \in LeftAnnouncedTo(p, d_last')

\* the step processed a LeaveReq of p
LeaveReqOf(p) ==
  /\ d_last'.op = "LeaveReq"
  /\ d_last'.events = << PlayerStatusChange(p, "Left", "Node") >>

\* the step processed a PlayerDisconnect of p
DisconnectOf(p) ==
  /\ d_last'.op = "PlayerDisconnect"
  /\ d_last'.events = << PlayerStatusChange(p, "Disconnected", "Node") >>

\* C33: a player whose sink the dispatcher removed is announced to the players
\* that remain connected by a PlayerLeft with its slot player id: by the
\* LeaveReq or the PlayerDisconnect that removed the sink, and, when a broadcast
\* removed it as closed or full, by the PlayerDisconnect that follows.
RemovedPlayerAnnounced ==
  [][ \A p \in Leavers :
        /\ LeaveReqOf(p) => ToldOfLeaving(p)
        /\ (DisconnectOf(p) /\ map[p].tx) => ToldOfLeaving(p)
        /\ (DisconnectOf(p) /\ removed[p] = "broadcast") => ToldOfLeaving(p) ]_vars

====
